---- MODULE Spec2Model ----
(***************************************************************************)
(* keepmenu: the daemon (start_server, Server, DmenuRunner and its         *)
(* inactivity timer), the front door (main, client, get_auth) and the      *)
(* auth file, modelled from src/keepmenu.py.                               *)
(*                                                                         *)
(* Eight specifications share the variables:                               *)
(*   Spec      one invocation that promotes itself to daemon, the clients  *)
(*             that submit requests to it, its Controller and its timer;   *)
(*   FairSpec  Spec with the fairness of the processes' scheduling;        *)
(*   SpecFD    several invocations of main() racing for the auth file and  *)
(*             the port;                                                   *)
(*   SpecAuth  get_auth run on every content of the auth file;             *)
(*   SpecTok   tokenize_autotype run on every template;                    *)
(*   SpecType  type_entry run on every entry with each backend;            *)
(*   SpecEdit  edit_entry, delete_entry and delete_group run on an entry   *)
(*             with every answer of the menus;                             *)
(*   SpecHide  the entry lists of DmenuRunner built for every hide_groups  *)
(*             value.                                                      *)
(***************************************************************************)
EXTENDS Integers, Sequences, FiniteSets, TLC

\* ------------------------------------------------------------------ bounds
\* Requests put on start_q in one run of the daemon (the initial one included).
MaxRequests == 3
\* Invocations of main() in SpecFD.
NumInv == 3
\* Ports find_free_port can return.
MaxPort == 2
\* Lines of an auth file in SpecAuth.
MaxLines == 3

VARIABLES
    auth_file,           \* AUTH_FILE: whether it exists, and its lines
    parent,              \* where the invoking process is in main/start_server
    server,              \* the Server process (and its BaseManager)
    ctl,                 \* where the DmenuRunner process is in run/dmenu_run
    option,              \* the option dmenu_run is working on
    active,              \* ids of the requests whose cycle is under way
    kpo,                 \* self.kpo: the database handle
    group,               \* manage_groups' return value is truthy
    cache_timer,         \* number of armed, unfired inactivity timers
    start_q,             \* Server.start_q
    kill_flag,           \* Server.kill_flag
    cache_time_expired,  \* Server.cache_time_expired
    submitted,           \* number of requests put on start_q so far
    serviced,            \* ids of the requests dmenu_run was called for
    stale_read,          \* entries/groups were read through a saved, not re-opened handle
    interrupted,         \* the Controller was terminated inside a cycle
    arrived_since_arm,   \* a request was put on start_q after the timer was last armed
    late_arrival,        \* a timer fired although a request had arrived after it was armed
    inv,                 \* SpecFD: the invocations
    bound,               \* SpecFD: which invocation's manager listens on a port
    auth_ret,            \* SpecAuth: what the last get_auth call did
    shown,               \* what dmenu_err displayed last: <<>>, or a message and its arguments
    SEQUENCE,            \* the global autotype_default template
    entry,               \* the entry type_entry is called on
    library,             \* [database] type_library of the configuration
    sequence,            \* the template handed to tokenize_autotype
    tokens,              \* what the tokenizer yields for it, and whether it gave up
    tok_i,               \* number of tokens the backend has pulled
    typed,               \* the backend actions issued so far, each with its token's index
    enter_idx,           \* the backend's enter_idx flag
    typist,              \* where type_entry is
    type_failed,         \* index of the first token whose typing failed, 0 if none
    autotype_rest,       \* tokenize_autotype's autotype: the input not consumed yet
    kp_entry,            \* SpecEdit: the entry the edit loop works on
    entry_in_db,         \* SpecEdit: the entry is in the database
    kpo_groups,          \* SpecEdit: the groups of the database
    kpo_saves,           \* SpecEdit: number of kpo.save() calls made
    dmenu,               \* SpecEdit: the dmenu_select calls of the last operation, in order
    type_text_data,      \* SpecEdit: what type_text was last called with
    edit,                \* SpecEdit: which loop is running, "done" when it has ended
    edits,               \* SpecEdit: number of operations run so far
    hide_groups,         \* SpecHide: [database] hide_groups of the configuration
    hide_kpo,            \* SpecHide: the group names and the entry of the database
    descriptions         \* SpecHide: the entry lists built, by include_hidden

daemon_vars == <<parent, server, ctl, option, active, kpo, group, cache_timer,
                 start_q, kill_flag, cache_time_expired, submitted, serviced,
                 stale_read, interrupted, arrived_since_arm, late_arrival>>
fd_vars == <<inv, bound>>
type_vars == <<SEQUENCE, entry, library, sequence, tokens, tok_i, typed, enter_idx, typist,
               type_failed, autotype_rest>>
edit_vars == <<kp_entry, entry_in_db, kpo_groups, kpo_saves, dmenu, type_text_data, edit, edits>>
hide_vars == <<hide_groups, hide_kpo, descriptions>>
more_vars == <<edit_vars, hide_vars>>
vars == <<auth_file, daemon_vars, fd_vars, auth_ret, shown, type_vars, more_vars>>

\* ------------------------------------------------------- the auth file
\* A line of the auth file, as configparser sees it: a section header, a
\* "key = value" option, or a line that is neither.
Hdr(name) == [t |-> "section", k |-> name, v |-> ""]
Opt(key, val) == [t |-> "option", k |-> key, v |-> val]
Junk == [t |-> "junk", k |-> "", v |-> ""]

\* The file: absent, or present with these lines.
Absent == [exists |-> FALSE, lines |-> <<>>]
File(lines) == [exists |-> TRUE, lines |-> lines]

\* str() and int() on port numbers: the file holds text.
Digits == <<"1", "2", "3", "4", "5", "6">>
str(n) == Digits[n]
IsNumber(s) == \E n \in 1..Len(Digits) : Digits[n] = s
int(s) == CHOOSE n \in 1..Len(Digits) : Digits[n] = s

\* random_str(): the model keeps one key.
random_str == "k"

\* Look a key up in a set of <<key, value>> pairs.
HasOption(d, key) == \E p \in d : p[1] = key
GetOption(d, key) == (CHOOSE p \in d : p[1] = key)[2]

\* ConfigParser.read (strict): the outcome and the options of [DEFAULT].
\* cursect = "" is "no section yet"; seen holds <<section, key>>; sects the
\* sections added; perr says a ParsingError is pending (raised at the end).
RECURSIVE ReadLines(_, _, _, _, _, _, _)
ReadLines(lines, i, cursect, seen, sects, defaults, perr) ==
    IF i > Len(lines)
    THEN [exc |-> IF perr THEN "ParsingError" ELSE "none", defaults |-> defaults]
    ELSE LET l == lines[i] IN
         IF l.t = "section"
         THEN IF l.k # "DEFAULT" /\ l.k \in sects
              THEN [exc |-> "DuplicateSectionError", defaults |-> defaults]
              ELSE ReadLines(lines, i + 1, l.k, seen,
                             IF l.k = "DEFAULT" THEN sects ELSE sects \cup {l.k},
                             defaults, perr)
         ELSE IF cursect = ""
         THEN [exc |-> "MissingSectionHeaderError", defaults |-> defaults]
         ELSE IF l.t = "option"
         THEN IF <<cursect, l.k>> \in seen
              THEN [exc |-> "DuplicateOptionError", defaults |-> defaults]
              ELSE ReadLines(lines, i + 1, cursect, seen \cup {<<cursect, l.k>>}, sects,
                             IF cursect = "DEFAULT"
                             THEN defaults \cup {<<l.k, l.v>>} ELSE defaults,
                             perr)
         ELSE ReadLines(lines, i + 1, cursect, seen, sects, defaults, TRUE)

auth_read(lines) == ReadLines(lines, 1, "", {}, {}, {}, FALSE)

\* What get_auth writes when the file is absent.
FreshAuth(port) ==
    <<Hdr("DEFAULT"), Opt("port", str(port)), Opt("authkey", random_str)>>

\* get_auth() on the file `file`, find_free_port() returning `freeport`:
\*   how    "ok" (returns port, authkey), "healed" (file removed, pkill,
\*          returns None, None) or "raised" (an exception leaves get_auth);
\*   file   the file afterwards;  port  the port returned (0 is None).
get_auth(file, freeport) ==
    LET f1 == IF ~file.exists THEN File(FreshAuth(freeport)) ELSE file
        r == auth_read(f1.lines)
    IN  IF r.exc = "MissingSectionHeaderError"
        THEN [how |-> "healed", file |-> Absent, port |-> 0, exc |-> r.exc]
        ELSE IF r.exc # "none"
        THEN [how |-> "raised", file |-> f1, port |-> 0, exc |-> r.exc]
        ELSE IF ~HasOption(r.defaults, "port") \/ ~HasOption(r.defaults, "authkey")
        THEN [how |-> "healed", file |-> Absent, port |-> 0, exc |-> "NoOptionError"]
        ELSE IF ~IsNumber(GetOption(r.defaults, "port"))
        THEN [how |-> "raised", file |-> f1, port |-> 0, exc |-> "ValueError"]
        ELSE [how |-> "ok", file |-> f1,
              port |-> int(GetOption(r.defaults, "port")), exc |-> "none"]

\* ------------------------------------------------------------ the daemon
\* MenuOption; "None" is Python's None.
MenuOption == {"ViewEntry", "Edit", "Add", "ManageGroups", "ReloadDB", "KillDaemon",
               "TypePassword", "TypeEntry", "TypeUsername"}

\* The command lines the model submits: no flag, --type-password,
\* and --view-entry together with --type-entry.
Args(tp, ve, tu, te) ==
    [type_password |-> tp, view_entry |-> ve, type_username |-> tu, type_entry |-> te]
ArgsSet == {Args(FALSE, FALSE, FALSE, FALSE), Args(TRUE, FALSE, FALSE, FALSE),
            Args(FALSE, TRUE, FALSE, TRUE)}

\* Server.show_dmenu: the option a command line stands for.
default_option(args) ==
    IF args.type_password THEN "TypePassword"
    ELSE IF args.view_entry THEN "ViewEntry"
    ELSE IF args.type_username THEN "TypeUsername"
    ELSE IF args.type_entry THEN "TypeEntry"
    ELSE "None"

\* (mutant) Queue(maxsize=1): put blocks while an action is pending.
put_single_slot(q) == Len(q) < 1

\* Queue.put on Queue(): no maxsize, so put never waits for room.
put_ready(q) == TRUE

\* Server.show_dmenu: start_q.put(default_option).
show_dmenu(args) ==
    /\ put_ready(start_q)
    /\ start_q' = Append(start_q, [id |-> submitted + 1, opt |-> default_option(args)])
    /\ submitted' = submitted + 1
    /\ arrived_since_arm' = TRUE

\* The states of the Controller in which a menu is on screen.
MenuStates == {"select_option", "select_entry", "edit_loop", "add_entry", "manage_groups",
               "create_group", "move_group", "rename_group", "delete_group"}
\* The states inside dmenu_run: a request's cycle is under way.
InFlight == MenuStates \cup {"dmenu_run", "save", "reopen", "reload_db", "kill_daemon"}
\* The DmenuRunner process is running.
CtlAlive == ctl \in InFlight \cup {"idle", "post"}

\* self.actions[option]: where the handler of an option starts.
Handler(opt) ==
    CASE opt \in {"TypePassword", "TypeUsername", "TypeEntry", "ViewEntry", "Edit"}
              -> "select_entry"
      [] opt = "Add" -> "add_entry"
      [] opt = "ManageGroups" -> "manage_groups"
      [] opt = "ReloadDB" -> "reload_db"
      [] opt = "KillDaemon" -> "kill_daemon"

\* (mutant) the timer last armed is left running.
cancel_nothing(n) == n

\* Timer.cancel() on the timer last armed, and _set_timer().
cancel(n) == 0
_set_timer(n) == n + 1

\* A read of kpo.entries or kpo.groups: through a handle saved and not
\* re-opened it is a stale read.
ReadHandle == stale_read' = (stale_read \/ kpo = "saved")

\* main(): client() calls get_auth and connects; nothing listens, so the
\* connection is refused and the invocation goes on to start_server.
main_client ==
    /\ parent = "main"
    /\ auth_file' = get_auth(auth_file, 1).file
    /\ parent' = "Server"
    /\ UNCHANGED <<server, ctl, option, active, kpo, group, cache_timer, start_q,
                   kill_flag, cache_time_expired, submitted, serviced, stale_read,
                   interrupted, arrived_since_arm, late_arrival, fd_vars, auth_ret, shown,
                   type_vars, more_vars>>

\* start_server: server = Server(); Server.__init__ calls get_auth.
Server_init ==
    /\ parent = "Server"
    /\ auth_file' = get_auth(auth_file, 1).file
    /\ start_q' = <<>>
    /\ kill_flag' = FALSE
    /\ cache_time_expired' = FALSE
    /\ parent' = "DmenuRunner"
    /\ UNCHANGED <<server, ctl, option, active, kpo, group, cache_timer, submitted,
                   serviced, stale_read, interrupted, arrived_since_arm, late_arrival,
                   fd_vars, auth_ret, shown, type_vars, more_vars>>

\* What PyKeePass(dbf, password, keyfile=keyfile) does in get_entries: it
\* returns the handle, or raises ChecksumError "wrong checksum" (password or
\* keyfile), FileNotFoundError with the database or the keyfile missing, or
\* any other exception.
OpenFailures == {"wrong checksum", "no database", "no keyfile", "Exception"}
GetEntriesResults == {"opened"} \cup OpenFailures

\* get_entries without its calls of dmenu_err.
get_entries_quiet(res) ==
    [kpo |-> IF res = "opened" THEN "open" ELSE "none", err |-> <<>>]

\* get_entries(dbo): the handle, or None after dmenu_err has shown why.
get_entries(res) ==
    [kpo |-> IF res = "opened" THEN "open" ELSE "none",
     err |-> CASE res = "opened" -> <<>>
               [] res = "wrong checksum" -> <<"Invalid Password or keyfile">>
               [] res = "no database" -> <<"Database does not exist">>
               [] res = "no keyfile" -> <<"Keyfile does not exist">>
               [] OTHER -> <<"Error: {}">>]

\* dmenu_err(prompt) after a call that may have shown nothing.
dmenu_err(prompt) == IF prompt = <<>> THEN shown ELSE prompt

\* start_server: dmenu = DmenuRunner(server), in the invoking process.
\* get_passphrase exits on an empty passphrase; a failed get_entries sets
\* the kill flag and exits.
DmenuRunner_init(res) ==
    /\ parent = "DmenuRunner"
    /\ \/ /\ res \in GetEntriesResults
          /\ LET r == get_entries(res) IN
             /\ kpo' = r.kpo
             /\ shown' = dmenu_err(r.err)
             /\ IF r.kpo = "none"
                THEN kill_flag' = TRUE /\ parent' = "exited"
                ELSE parent' = "start" /\ UNCHANGED kill_flag
       \/ /\ res = "no_passphrase"
          /\ parent' = "exited"
          /\ UNCHANGED <<kpo, kill_flag, shown>>
    /\ UNCHANGED <<auth_file, server, ctl, option, active, group, cache_timer, start_q,
                   cache_time_expired, submitted, serviced, stale_read, interrupted,
                   arrived_since_arm, late_arrival, fd_vars, auth_ret, type_vars, more_vars>>

\* start_server: server.start(); dmenu.start().
start_processes ==
    /\ parent = "start"
    /\ server' = "running"
    /\ ctl' = "idle"
    /\ parent' = "show_dmenu"
    /\ UNCHANGED <<auth_file, option, active, kpo, group, cache_timer, start_q, kill_flag,
                   cache_time_expired, submitted, serviced, stale_read, interrupted,
                   arrived_since_arm, late_arrival, fd_vars, auth_ret, shown, type_vars, more_vars>>

\* start_server: server.show_dmenu(args), the invocation's own request.
start_show_dmenu(args) ==
    /\ parent = "show_dmenu"
    /\ show_dmenu(args)
    /\ parent' = "join"
    /\ UNCHANGED <<auth_file, server, ctl, option, active, kpo, group, cache_timer,
                   kill_flag, cache_time_expired, serviced, stale_read, interrupted,
                   late_arrival, fd_vars, auth_ret, shown, type_vars, more_vars>>

\* A later invocation reaches the manager: MANAGER.show_dmenu(args).
client_show_dmenu(args) ==
    /\ server = "running"
    /\ submitted + (IF parent = "show_dmenu" THEN 1 ELSE 0) < MaxRequests
    /\ show_dmenu(args)
    /\ UNCHANGED <<auth_file, parent, server, ctl, option, active, kpo, group, cache_timer,
                   kill_flag, cache_time_expired, serviced, stale_read, interrupted,
                   late_arrival, fd_vars, auth_ret, shown, type_vars, more_vars>>

\* Server.run: kill_flag.wait() returns and the Server process ends, its
\* manager with it.
Server_run ==
    /\ server = "running"
    /\ kill_flag
    /\ server' = "exited"
    /\ UNCHANGED <<auth_file, parent, ctl, option, active, kpo, group, cache_timer, start_q,
                   kill_flag, cache_time_expired, submitted, serviced, stale_read,
                   interrupted, arrived_since_arm, late_arrival, fd_vars, auth_ret, shown,
                   type_vars, more_vars>>

\* start_server: server.join() returns; the auth file is removed.
start_server_join ==
    /\ parent = "join"
    /\ server = "exited"
    /\ auth_file' = Absent
    /\ parent' = "exit"
    /\ UNCHANGED <<server, ctl, option, active, kpo, group, cache_timer, start_q,
                   kill_flag, cache_time_expired, submitted, serviced, stale_read,
                   interrupted, arrived_since_arm, late_arrival, fd_vars, auth_ret, shown,
                   type_vars, more_vars>>

\* main returns: the invoking process exits and multiprocessing terminates
\* its daemonic child, the DmenuRunner, wherever it is.
main_exit ==
    /\ parent = "exit"
    /\ parent' = "exited"
    /\ ctl' = IF CtlAlive THEN "terminated" ELSE ctl
    /\ interrupted' = (interrupted \/ ctl \in InFlight)
    /\ cache_timer' = 0
    /\ UNCHANGED <<auth_file, server, option, active, kpo, group, start_q, kill_flag,
                   cache_time_expired, submitted, serviced, stale_read,
                   arrived_since_arm, late_arrival, fd_vars, auth_ret, shown, type_vars, more_vars>>

\* What no step of the DmenuRunner process changes.
reopen_frame == <<auth_file, parent, server, submitted, interrupted, fd_vars, auth_ret,
                  type_vars, more_vars>>
runner_frame == <<reopen_frame, shown>>

\* (mutant) requests are pulled while a menu of the previous one is still up.
run_ready_overlapping == ctl \in {"idle"} \cup MenuStates

\* DmenuRunner.run: the loop reaches start_q.get() only between two cycles.
run_ready == ctl = "idle"

\* DmenuRunner.run: option = start_q.get(); break on the kill flag; a false
\* self.kpo skips dmenu_run.
run_get ==
    /\ run_ready
    /\ start_q # <<>>
    /\ start_q' = Tail(start_q)
    /\ IF kill_flag
       THEN /\ ctl' = "exited"
            /\ cache_timer' = 0
            /\ UNCHANGED <<option, active, serviced>>
       ELSE IF kpo = "none"
       THEN /\ ctl' = "post"
            /\ UNCHANGED <<option, active, serviced, cache_timer>>
       ELSE /\ ctl' = "dmenu_run"
            /\ option' = Head(start_q).opt
            /\ active' = active \cup {Head(start_q).id}
            /\ serviced' = serviced \cup {Head(start_q).id}
            /\ UNCHANGED cache_timer
    /\ UNCHANGED <<kpo, group, kill_flag, cache_time_expired, stale_read,
                   arrived_since_arm, late_arrival, runner_frame>>

\* DmenuRunner.dmenu_run, to the menu or to the handler: the timer is
\* cancelled and armed again.
dmenu_run ==
    /\ ctl = "dmenu_run"
    /\ cache_timer' = _set_timer(cancel(cache_timer))
    /\ arrived_since_arm' = FALSE
    /\ ctl' = IF option = "None" THEN "select_option" ELSE Handler(option)
    /\ group' = FALSE
    /\ UNCHANGED <<option, active, kpo, start_q, kill_flag, cache_time_expired, serviced,
                   stale_read, late_arrival, runner_frame>>

\* DmenuRunner.dmenu_select_option: the action menu. A selection that is
\* no action's description ends dmenu_run.
dmenu_select_option(sel) ==
    /\ ctl = "select_option"
    /\ option' = sel
    /\ ctl' = IF sel = "None" THEN "post" ELSE Handler(sel)
    /\ UNCHANGED <<active, kpo, group, cache_timer, start_q, kill_flag, cache_time_expired,
                   serviced, stale_read, arrived_since_arm, late_arrival, runner_frame>>

\* (mutant) a false return value of the handler ends dmenu_run.
NotFinished_ends ==
    /\ ctl' = "post"
    /\ UNCHANGED option

\* The handler returned a false value: dmenu_run(None).
NotFinished ==
    /\ ctl' = "dmenu_run"
    /\ option' = "None"

\* type_password, type_username, type_entry, view_entry, edit_entry of
\* DmenuRunner: the entry list is built from self.kpo.entries and shown.
\* sel: "" nothing chosen, "entry" a numbered line, "text" anything else.
select_entry(sel) ==
    /\ ctl = "select_entry"
    /\ IF kpo = "none"
       THEN /\ ctl' = "crashed"
            /\ cache_timer' = 0
            /\ UNCHANGED <<option, stale_read>>
       ELSE /\ ReadHandle
            /\ CASE sel = "" -> NotFinished /\ UNCHANGED cache_timer
                 [] sel = "text" ->
                       ctl' = "crashed" /\ cache_timer' = 0 /\ UNCHANGED option
                 [] sel = "entry" ->
                       /\ ctl' = IF option = "Edit" THEN "edit_loop" ELSE "post"
                       /\ UNCHANGED <<option, cache_timer>>
    /\ UNCHANGED <<active, kpo, group, start_q, kill_flag, cache_time_expired, serviced,
                   arrived_since_arm, late_arrival, runner_frame>>

\* One pass of `while edit is True: edit = edit_entry(kpo, entry)`.
\*   "setattr"  a field is set, the loop goes on;
\*   "move"     path: select_group reads kpo.groups, move_entry;
\*   "delete"   delete_entry confirmed: kpo.delete_entry, kpo.save(), loop ends;
\*   "done"     edit_entry returns False.
edit_entry(res) ==
    /\ ctl = "edit_loop"
    /\ CASE res = "setattr" -> kpo' = "dirty" /\ UNCHANGED <<ctl, stale_read>>
         [] res = "move" -> kpo' = "dirty" /\ ReadHandle /\ UNCHANGED ctl
         [] res = "delete" -> kpo' = "saved" /\ ctl' = "save" /\ UNCHANGED stale_read
         [] res = "done" -> ctl' = "save" /\ UNCHANGED <<kpo, stale_read>>
    /\ UNCHANGED <<option, active, group, cache_timer, start_q, kill_flag,
                   cache_time_expired, serviced, arrived_since_arm, late_arrival,
                   runner_frame>>

\* DmenuRunner.edit_entry/add_entry/manage_groups: self.kpo.save().
kpo_save ==
    /\ ctl = "save"
    /\ kpo' = "saved"
    /\ ctl' = "reopen"
    /\ UNCHANGED <<option, active, group, cache_timer, start_q, kill_flag,
                   cache_time_expired, serviced, stale_read, arrived_since_arm,
                   late_arrival, runner_frame>>

\* ... then self.kpo = get_entries(self.database); return True.
kpo_reopen(res) ==
    /\ ctl = "reopen"
    /\ kpo' = get_entries(res).kpo
    /\ shown' = dmenu_err(get_entries(res).err)
    /\ ctl' = "post"
    /\ UNCHANGED <<option, active, group, cache_timer, start_q, kill_flag,
                   cache_time_expired, serviced, stale_read, arrived_since_arm,
                   late_arrival, reopen_frame>>

\* DmenuRunner.add_entry -> add_entry(kpo): select_group, kpo.add_entry,
\* then the edit loop.
add_entry(chosen) ==
    /\ ctl = "add_entry"
    /\ IF kpo = "none"
       THEN /\ ctl' = "crashed"
            /\ cache_timer' = 0
            /\ UNCHANGED <<option, kpo, stale_read>>
       ELSE /\ ReadHandle
            /\ UNCHANGED cache_timer
            /\ IF chosen
               THEN kpo' = "dirty" /\ ctl' = "edit_loop" /\ UNCHANGED option
               ELSE NotFinished /\ UNCHANGED kpo
    /\ UNCHANGED <<active, group, start_q, kill_flag, cache_time_expired, serviced,
                   arrived_since_arm, late_arrival, runner_frame>>

\* manage_groups(kpo): the menu of the loop, built from kpo.groups.
\* sel: one of the four operations, or "" (anything else ends the loop).
manage_groups(sel) ==
    /\ ctl = "manage_groups"
    /\ IF kpo = "none"
       THEN /\ ctl' = "crashed"
            /\ cache_timer' = 0
            /\ UNCHANGED <<option, stale_read>>
       ELSE /\ ReadHandle
            /\ UNCHANGED cache_timer
            /\ CASE sel = "Create" -> ctl' = "create_group" /\ UNCHANGED option
                 [] sel = "Move" -> ctl' = "move_group" /\ UNCHANGED option
                 [] sel = "Rename" -> ctl' = "rename_group" /\ UNCHANGED option
                 [] sel = "Delete" -> ctl' = "delete_group" /\ UNCHANGED option
                 [] sel = "" -> IF group THEN ctl' = "save" /\ UNCHANGED option
                                         ELSE NotFinished
    /\ UNCHANGED <<active, kpo, group, start_q, kill_flag, cache_time_expired, serviced,
                   arrived_since_arm, late_arrival, runner_frame>>

\* create_group, move_group, rename_group, delete_group: select_group reads
\* kpo.groups; res: "back" the user backs out (returns False), "no" the
\* delete is not confirmed (returns True), "done" the change is made and
\* kpo.save() is called.
group_op(res) ==
    /\ ctl \in {"create_group", "move_group", "rename_group", "delete_group"}
    /\ res = "no" => ctl = "delete_group"
    /\ ReadHandle
    /\ CASE res = "back" -> group' = FALSE /\ UNCHANGED kpo
         [] res = "no" -> group' = TRUE /\ UNCHANGED kpo
         [] res = "done" -> group' = TRUE /\ kpo' = "saved"
    /\ ctl' = "manage_groups"
    /\ UNCHANGED <<option, active, cache_timer, start_q, kill_flag, cache_time_expired,
                   serviced, arrived_since_arm, late_arrival, runner_frame>>

\* DmenuRunner.reload_db: re-open; returns None.
reload_db(res) ==
    /\ ctl = "reload_db"
    /\ kpo' = get_entries(res).kpo
    /\ shown' = dmenu_err(get_entries(res).err)
    /\ NotFinished
    /\ UNCHANGED <<active, group, cache_timer, start_q, kill_flag, cache_time_expired,
                   serviced, stale_read, arrived_since_arm, late_arrival, reopen_frame>>

\* DmenuRunner.kill_daemon.
kill_daemon ==
    /\ ctl = "kill_daemon"
    /\ kill_flag' = TRUE
    /\ ctl' = "post"
    /\ UNCHANGED <<option, active, kpo, group, cache_timer, start_q, cache_time_expired,
                   serviced, stale_read, arrived_since_arm, late_arrival, runner_frame>>

\* DmenuRunner.run after dmenu_run: an expired cache sets the kill flag;
\* the kill flag ends the loop and the process.
run_post ==
    /\ ctl = "post"
    /\ kill_flag' = (kill_flag \/ cache_time_expired)
    /\ ctl' = IF kill_flag' THEN "exited" ELSE "idle"
    /\ cache_timer' = IF kill_flag' THEN 0 ELSE cache_timer
    /\ active' = {}
    /\ UNCHANGED <<option, kpo, group, start_q, cache_time_expired, serviced, stale_read,
                   arrived_since_arm, late_arrival, runner_frame>>

\* dmenu_select: the menu program wrote to stderr; the error is shown and
\* sys.exit() ends the DmenuRunner process, its timer thread with it.
dmenu_select_err ==
    /\ ctl \in MenuStates
    /\ ctl' = "crashed"
    /\ cache_timer' = 0
    /\ UNCHANGED <<option, active, kpo, group, start_q, kill_flag, cache_time_expired,
                   serviced, stale_read, arrived_since_arm, late_arrival, runner_frame>>

\* DmenuRunner.cache_time, on the timer thread: start_q.set() raises
\* AttributeError (a Queue has no set), after both flags are set.
cache_time ==
    /\ cache_timer > 0
    /\ cache_timer' = cache_timer - 1
    /\ cache_time_expired' = TRUE
    /\ kill_flag' = (kill_flag \/ start_q = <<>>)
    /\ late_arrival' = (late_arrival \/ arrived_since_arm)
    /\ UNCHANGED <<ctl, option, active, kpo, group, start_q, serviced, stale_read,
                   arrived_since_arm, runner_frame>>

\* A braced directive: the pieces of "{name}".
Key(name) == <<"{", name, "}">>

\* keepmenu.py line 140: SEQUENCE = "{USERNAME}{TAB}{PASSWORD}{ENTER}".
DefaultSequence == Key("USERNAME") \o Key("TAB") \o Key("PASSWORD") \o Key("ENTER")

\* The entries type_entry is called on. An entry of an old pykeepass has
\* neither attribute; autotype_enabled is None, True or False;
\* autotype_sequence is None or a non-empty string ('None' is what the edit
\* loop stores when the field it displays as "None" is confirmed unchanged).
Entry(has, enabled, none, seq) ==
    [has_autotype |-> has, autotype_enabled |-> enabled,
     autotype_sequence |-> [none |-> none, str |-> seq],
     title |-> <<"t">>, username |-> <<"u">>, password |-> <<"p">>,
     url |-> <<>>, notes |-> <<>>]

\* A value of an entry's field, or a string a menu returns. A string the
\* user types or the database holds is known by its text; a string made by
\* gen_passwd is known by its length and by the character sets its
\* characters come from; None is None and False is False.
NoneVal == [kind |-> "None", text |-> "", length |-> 0, classes |-> {}]
FalseVal == [kind |-> "False", text |-> "", length |-> 0, classes |-> {}]
Str(text) == [kind |-> "str", text |-> text, length |-> 0, classes |-> {}]

\* Python's truth value of a field.
truthy(v) == v.kind = "generated" \/ (v.kind = "str" /\ v.text # "")

\* An entry as the edit loop sees it.
EditEntry(password, path) ==
    [title |-> Str("t"), path |-> Str(path), username |-> Str("u"), password |-> password,
     url |-> NoneVal, notes |-> NoneVal, autotype_sequence |-> NoneVal,
     autotype_enabled |-> Str("True")]

\* No get_entries_descriptions call has built the list.
Unbuilt == [built |-> FALSE, list |-> <<>>]

\* The edit loop's variables while no entry is edited.
InitEditRest ==
    /\ kp_entry = EditEntry(NoneVal, "")
    /\ entry_in_db = TRUE
    /\ kpo_groups = {}
    /\ kpo_saves = 0
    /\ dmenu = <<>>
    /\ type_text_data = NoneVal
    /\ edit = "none"
    /\ edits = 0

\* The entry lists' variables while no list is built.
InitHideRest ==
    /\ hide_groups = <<>>
    /\ hide_kpo = [groups |-> {}, group_path |-> <<>>, title |-> <<>>]
    /\ descriptions = [default |-> Unbuilt, hidden |-> Unbuilt]

\* The autotype variables while nothing is typed.
InitTypeRest ==
    /\ shown = <<>>
    /\ SEQUENCE = DefaultSequence
    /\ entry = Entry(FALSE, "None", TRUE, <<>>)
    /\ library = ""
    /\ sequence = <<>>
    /\ tokens = [tokens |-> <<>>, err |-> FALSE, left |-> <<>>]
    /\ tok_i = 0
    /\ typed = <<>>
    /\ enter_idx = TRUE
    /\ typist = "none"
    /\ type_failed = 0
    /\ autotype_rest = <<>>

InitDaemon ==
    /\ parent = "main"
    /\ server = "none"
    /\ ctl = "none"
    /\ option = "None"
    /\ active = {}
    /\ kpo = "unset"
    /\ group = FALSE
    /\ cache_timer = 0
    /\ start_q = <<>>
    /\ kill_flag = FALSE
    /\ cache_time_expired = FALSE
    /\ submitted = 0
    /\ serviced = {}
    /\ stale_read = FALSE
    /\ interrupted = FALSE
    /\ arrived_since_arm = FALSE
    /\ late_arrival = FALSE

\* SpecFD's and SpecAuth's variables, at rest.
InitFD == inv = <<>> /\ bound = <<>>
InitAuthRet == auth_ret = [how |-> "none", exc |-> "none", calls |-> 0, before |-> Absent]

Init ==
    /\ auth_file \in {Absent, File(FreshAuth(1))}
    /\ InitDaemon
    /\ InitFD
    /\ InitAuthRet
    /\ InitTypeRest
    /\ InitEditRest
    /\ InitHideRest

Next ==
    \/ main_client
    \/ Server_init
    \/ \E res \in GetEntriesResults \cup {"no_passphrase"} : DmenuRunner_init(res)
    \/ start_processes
    \/ \E args \in ArgsSet : start_show_dmenu(args)
    \/ \E args \in ArgsSet : client_show_dmenu(args)
    \/ Server_run
    \/ start_server_join
    \/ main_exit
    \/ run_get
    \/ dmenu_run
    \/ \E sel \in MenuOption \cup {"None"} : dmenu_select_option(sel)
    \/ \E sel \in {"", "entry", "text"} : select_entry(sel)
    \/ \E res \in {"setattr", "move", "delete", "done"} : edit_entry(res)
    \/ kpo_save
    \/ \E res \in GetEntriesResults : kpo_reopen(res)
    \/ \E chosen \in BOOLEAN : add_entry(chosen)
    \/ \E sel \in {"Create", "Move", "Rename", "Delete", ""} : manage_groups(sel)
    \/ \E res \in {"back", "no", "done"} : group_op(res)
    \/ \E res \in GetEntriesResults : reload_db(res)
    \/ kill_daemon
    \/ run_post
    \/ dmenu_select_err
    \/ cache_time

Spec == Init /\ [][Next]_vars

\* -------------------------------------------------------- the front door
\* SpecFD: NumInv invocations of main(), each run once, in any interleaving.
\* An invocation is [pc, port]: where it is, and the port get_auth gave it
\* (0 is None).
Inv == 1..NumInv
Ports == 1..MaxPort

\* The invocations that are running processes (pkill can reach them).
Running(i) == inv[i].pc \in {"connect", "Server", "DmenuRunner", "start", "serving", "join"}
\* The invocation is a daemon: its manager is bound and serves requests.
Serving(i) == inv[i].pc = "serving"

\* find_free_port(): any port nothing is bound to.
FreePorts == {p \in Ports : bound[p] = 0}

\* call(["pkill", "keepmenu"]) in get_auth: whether the processes carry the
\* name keepmenu depends on how they were started; when they do, every
\* instance is terminated, the caller included, and the ports are released.
pkill(i, hit, pc, port) ==
    /\ inv' = [j \in Inv |->
                 IF j = i THEN [pc |-> IF hit THEN "killed" ELSE pc, port |-> port]
                 ELSE IF hit /\ Running(j) THEN [inv[j] EXCEPT !.pc = "killed"]
                 ELSE inv[j]]
    /\ bound' = IF hit THEN [p \in Ports |-> 0] ELSE bound

\* One invocation's step to pc with port; the others stay.
Step(i, pc, port) == inv' = [inv EXCEPT ![i] = [pc |-> pc, port |-> port]]

fd_frame == <<daemon_vars, auth_ret, shown, type_vars, more_vars>>

\* main -> client(): port, auth = get_auth(). With None for a port the
\* connect raises TypeError, which main does not catch.
fd_client(i) ==
    /\ inv[i].pc = "main"
    /\ \E p \in FreePorts, hit \in BOOLEAN :
         LET r == get_auth(auth_file, p) IN
         /\ auth_file' = r.file
         /\ CASE r.how = "ok" -> ~hit /\ Step(i, "connect", r.port) /\ UNCHANGED bound
              [] r.how = "healed" -> pkill(i, hit, "failed", 0)
              [] r.how = "raised" -> ~hit /\ Step(i, "failed", 0) /\ UNCHANGED bound
    /\ UNCHANGED fd_frame

\* client(): mgr.connect(), then main: MANAGER.show_dmenu(args) and the
\* invocation ends; a refused connection is the socket.error main catches.
fd_connect(i) ==
    /\ inv[i].pc = "connect"
    /\ IF bound[inv[i].port] # 0
       THEN Step(i, "forwarded", inv[i].port)
       ELSE Step(i, "Server", inv[i].port)
    /\ UNCHANGED <<auth_file, bound, fd_frame>>

\* start_server: Server() -> get_auth(), a second time.
fd_Server_init(i) ==
    /\ inv[i].pc = "Server"
    /\ \E p \in FreePorts, hit \in BOOLEAN :
         LET r == get_auth(auth_file, p) IN
         /\ auth_file' = r.file
         /\ CASE r.how = "ok" -> ~hit /\ Step(i, "DmenuRunner", r.port) /\ UNCHANGED bound
              [] r.how = "healed" -> pkill(i, hit, "DmenuRunner", 0)
              [] r.how = "raised" -> ~hit /\ Step(i, "failed", 0) /\ UNCHANGED bound
    /\ UNCHANGED fd_frame

\* start_server: DmenuRunner(server): the passphrase is asked for and the
\* database opened; on failure sys.exit().
fd_DmenuRunner_init(i, opened) ==
    /\ inv[i].pc = "DmenuRunner"
    /\ Step(i, IF opened THEN "start" ELSE "failed", inv[i].port)
    /\ UNCHANGED <<auth_file, bound, fd_frame>>

\* start_server: server.start() -> Server.run -> Server.server: the
\* manager binds 127.0.0.1:port. If the port is taken (or None) mgr.start()
\* raises and the Server process ends at once.
fd_server_start(i) ==
    /\ inv[i].pc = "start"
    /\ IF inv[i].port # 0 /\ bound[inv[i].port] = 0
       THEN /\ bound' = [bound EXCEPT ![inv[i].port] = i]
            /\ Step(i, "serving", inv[i].port)
       ELSE /\ Step(i, "join", inv[i].port)
            /\ UNCHANGED bound
    /\ UNCHANGED <<auth_file, fd_frame>>

\* The daemon's kill flag is set (kill-daemon, or the cache time expired):
\* Server.run returns and the manager goes down with the Server process.
fd_Server_run(i) ==
    /\ Serving(i)
    /\ bound' = [bound EXCEPT ![inv[i].port] = 0]
    /\ Step(i, "join", inv[i].port)
    /\ UNCHANGED <<auth_file, fd_frame>>

\* start_server: server.join() returns; AUTH_FILE is removed if it exists.
fd_join(i) ==
    /\ inv[i].pc = "join"
    /\ auth_file' = Absent
    /\ Step(i, "exited", inv[i].port)
    /\ UNCHANGED <<bound, fd_frame>>

\* The auth files SpecFD starts from: none, one left by an earlier daemon,
\* one without its section header, one whose port is not a number.
InitAuthFiles ==
    {Absent,
     File(FreshAuth(1)),
     File(<<Opt("port", "1"), Opt("authkey", random_str)>>),
     File(<<Hdr("DEFAULT"), Opt("port", "abc"), Opt("authkey", random_str)>>)}

InitFDRun ==
    /\ auth_file \in InitAuthFiles
    /\ inv = [i \in Inv |-> [pc |-> "main", port |-> 0]]
    /\ bound = [p \in Ports |-> 0]
    /\ InitDaemon
    /\ InitAuthRet
    /\ InitTypeRest
    /\ InitEditRest
    /\ InitHideRest

NextFD ==
    \E i \in Inv :
        \/ fd_client(i)
        \/ fd_connect(i)
        \/ fd_Server_init(i)
        \/ \E opened \in BOOLEAN : fd_DmenuRunner_init(i, opened)
        \/ fd_server_start(i)
        \/ fd_Server_run(i)
        \/ fd_join(i)

SpecFD == InitFDRun /\ [][NextFD]_vars

\* ----------------------------------------------------- get_auth, alone
\* SpecAuth: get_auth called MaxCalls times in a row (one invocation after
\* another) on an auth file of any content of at most MaxLines lines.
MaxCalls == 3

AuthLines == {Hdr("DEFAULT"), Hdr("server"), Opt("port", "1"), Opt("port", "abc"),
              Opt("authkey", random_str), Junk}

RECURSIVE SeqsUpTo(_, _)
SeqsUpTo(S, n) ==
    IF n = 0 THEN {<<>>}
    ELSE LET shorter == SeqsUpTo(S, n - 1)
         IN shorter \cup {Append(q, x) : q \in {r \in shorter : Len(r) = n - 1}, x \in S}

auth_call ==
    /\ auth_ret.calls < MaxCalls
    /\ LET r == get_auth(auth_file, 1) IN
       /\ auth_file' = r.file
       /\ auth_ret' = [how |-> r.how, exc |-> r.exc, calls |-> auth_ret.calls + 1,
                       before |-> auth_file]
    /\ UNCHANGED <<daemon_vars, fd_vars, shown, type_vars, more_vars>>

InitAuth ==
    /\ auth_file \in {Absent} \cup {File(l) : l \in SeqsUpTo(AuthLines, MaxLines)}
    /\ InitAuthRet
    /\ InitDaemon
    /\ InitFD
    /\ InitTypeRest
    /\ InitEditRest
    /\ InitHideRest

NextAuth == auth_call

SpecAuth == InitAuth /\ [][NextAuth]_vars

\* ------------------------------------------------------------ autotype
\* A template is a sequence of pieces: each of the characters the tokenizer
\* looks for is a piece of its own, and a run of other characters ("ENTER",
\* "DELAY 5", "x") is one piece. str.find and the slices then work on pieces
\* as they do on characters.
MaxLen == 6
MaxParts == 3
MaxDirectives == 4

\* autotype.find(char): the index of the first occurrence, -1 if none.
find(autotype, char) ==
    IF \E i \in 1..Len(autotype) : autotype[i] = char
    THEN (CHOOSE i \in 1..Len(autotype) :
              autotype[i] = char /\ \A j \in 1..(i - 1) : autotype[j] # char) - 1
    ELSE -1

\* autotype[a:b] and autotype[i], with Python's indices.
slice(autotype, a, b) == SubSeq(autotype, a + 1, b)
at(autotype, i) == autotype[i + 1]

\* for char in "{+^%~@": the smallest index found, -1 if none.
opening(autotype) ==
    LET found == {find(autotype, char) : char \in {"{", "+", "^", "%", "~", "@"}} \ {-1}
    IN IF found = {} THEN -1 ELSE CHOOSE idx \in found : \A other \in found : idx <= other

Token(text, special) == [text |-> text, special |-> special]

\* (mutant) "{}}" is not told apart from "{}" followed by "}".
never_literal_brace(autotype, opening_idx, closing_idx) == FALSE

\* closing_idx == opening_idx + 1 and closing_idx + 1 < len(autotype)
\*     and autotype[closing_idx + 1] == '}'
literal_brace(autotype, opening_idx, closing_idx) ==
    /\ closing_idx = opening_idx + 1
    /\ closing_idx + 1 < Len(autotype)
    /\ at(autotype, closing_idx + 1) = "}"

\* (mutant) the closing brace is left out of the span.
special_span_open(autotype, opening_idx, closing_idx) ==
    slice(autotype, opening_idx, closing_idx)

\* autotype[opening_idx:closing_idx + 1]
special_span(autotype, opening_idx, closing_idx) ==
    slice(autotype, opening_idx, closing_idx + 1)

\* (mutant) the input is cut at the closing brace, not after it.
after_closing_stuck(autotype, closing_idx) == slice(autotype, closing_idx, Len(autotype))

\* autotype = autotype[closing_idx + 1:]
after_closing(autotype, closing_idx) == slice(autotype, closing_idx + 1, Len(autotype))

\* One pass of the body of `while autotype:`, on a non-empty autotype: the
\* tokens it yields, what it assigns to autotype, whether it returns, and
\* whether it called dmenu_err("Unable to find matching right brace").
tokenize_pass(autotype) ==
    LET opening_idx == opening(autotype)
        closing_idx == find(autotype, "}")
        literal == IF opening_idx > 0
                   THEN <<Token(slice(autotype, 0, opening_idx), FALSE)>>
                   ELSE <<>>
        yield(special, rest) ==
            [yield |-> literal \o <<Token(special, TRUE)>>, rest |-> rest,
             return |-> FALSE, err |-> FALSE]
    IN IF opening_idx = -1
       THEN [yield |-> <<Token(autotype, FALSE)>>, rest |-> autotype,
             return |-> TRUE, err |-> FALSE]
       ELSE IF at(autotype, opening_idx) \in {"+", "^", "%", "~", "@"}
       THEN yield(<<at(autotype, opening_idx)>>,
                  slice(autotype, opening_idx + 1, Len(autotype)))
       ELSE IF closing_idx = -1
       THEN [yield |-> literal, rest |-> autotype, return |-> TRUE, err |-> TRUE]
       ELSE IF literal_brace(autotype, opening_idx, closing_idx)
       THEN yield(<<"{", "}", "}">>, slice(autotype, closing_idx + 2, Len(autotype)))
       ELSE yield(special_span(autotype, opening_idx, closing_idx),
                  after_closing(autotype, closing_idx))

\* tokenize_autotype(autotype): the tokens the generator yields, in order,
\* whether it ended on dmenu_err("Unable to find matching right brace"), and
\* the input that message names.
RECURSIVE tokenize_autotype(_)
tokenize_autotype(autotype) ==
    IF autotype = <<>> THEN [tokens |-> <<>>, err |-> FALSE, left |-> <<>>]
    ELSE LET pass == tokenize_pass(autotype)
         IN IF pass.return
            THEN [tokens |-> pass.yield, err |-> pass.err,
                  left |-> IF pass.err THEN autotype ELSE <<>>]
            ELSE [tokenize_autotype(pass.rest) EXCEPT !.tokens = pass.yield \o @]

\* The text of the tokens, concatenated in order.
RECURSIVE Flatten(_)
Flatten(toks) == IF toks = <<>> THEN <<>> ELSE Head(toks).text \o Flatten(Tail(toks))

\* The message of the tokenizer's dmenu_err.
BraceError(autotype) == <<"Unable to find matching right brace", autotype>>

\* (mutant) no token denotes a command.
token_command_none(token) == FALSE

\* token_command(token): re.match(r'{DELAY (\d+)}', token) gives a callable.
token_command(token) ==
    Len(token) = 3 /\ token[1] = "{" /\ token[2] \in {"DELAY 5"} /\ token[3] = "}"

\* The entry fields the placeholders read.
PLACEHOLDER_AUTOTYPE_TOKENS ==
    (Key("TITLE") :> "title") @@ (Key("USERNAME") :> "username") @@ (Key("URL") :> "url")
    @@ (Key("PASSWORD") :> "password") @@ (Key("NOTES") :> "notes")

STRING_AUTOTYPE_TOKENS ==
    (Key("PLUS") :> <<"+">>) @@ (Key("TILDE") :> <<"~">>) @@ (Key("LEFTBRACE") :> <<"{">>)
    @@ (Key("RIGHTBRACE") :> <<"}">>) @@ (Key("+") :> <<"+">>) @@ (Key("~") :> <<"~">>)
    @@ (Key("{") :> <<"{">>) @@ (Key("}") :> <<"}">>)

\* The key tables, for the keys the templates of this model can name: a key
\* every backend has, the two spellings of Enter, one key only pynput has,
\* one key only xdotool and ydotool have, and the operator characters.
PYNPUT_AUTOTYPE_TOKENS ==
    (Key("TAB") :> <<"tap", "tab">>) @@ (Key("ENTER") :> <<"tap", "enter">>)
    @@ (<<"~">> :> <<"tap", "enter">>) @@ (Key("PRTSC") :> <<"tap", "print_screen">>)
    @@ (<<"+">> :> <<"tap", "shift">>) @@ (<<"^">> :> <<"tap", "ctrl">>)
    @@ (<<"%">> :> <<"tap", "alt">>) @@ (<<"@">> :> <<"tap", "cmd">>)

XDOTOOL_AUTOTYPE_TOKENS ==
    (Key("TAB") :> <<"key", "Tab">>) @@ (Key("ENTER") :> <<"key", "Return">>)
    @@ (<<"~">> :> <<"key", "Return">>) @@ (Key("ADD") :> <<"key", "KP_Add">>)
    @@ (<<"+">> :> <<"key", "Shift">>) @@ (<<"^">> :> <<"Key", "Ctrl">>)
    @@ (<<"%">> :> <<"key", "Alt">>) @@ (<<"@">> :> <<"key", "Super">>)

YDOTOOL_AUTOTYPE_TOKENS ==
    (Key("TAB") :> <<"key", "TAB">>) @@ (Key("ENTER") :> <<"key", "ENTER">>)
    @@ (<<"~">> :> <<"key", "Return">>) @@ (Key("ADD") :> <<"key", "KPPLUS">>)
    @@ (<<"+">> :> <<"key", "LEFTSHIFT">>) @@ (<<"^">> :> <<"Key", "LEFTCTRL">>)
    @@ (<<"%">> :> <<"key", "LEFTALT">>)

\* type_entry's choice of the backend: pynput unless type_library names
\* xdotool or ydotool.
Backend(type_library) ==
    IF type_library \in {"xdotool", "ydotool"} THEN type_library ELSE "pynput"

KeyTable(lib) ==
    CASE lib = "xdotool" -> XDOTOOL_AUTOTYPE_TOKENS
      [] lib = "ydotool" -> YDOTOOL_AUTOTYPE_TOKENS
      [] OTHER -> PYNPUT_AUTOTYPE_TOKENS

\* (mutant) autotype_enabled is not looked at.
autotype_always(e) == FALSE

\* hasattr(entry, 'autotype_enabled') and entry.autotype_enabled is False
autotype_disabled(e) == e.has_autotype /\ e.autotype_enabled = "False"

\* (mutant) the override is used whenever it is not None.
has_sequence_not_none(e) == e.has_autotype /\ ~e.autotype_sequence.none

\* hasattr(entry, 'autotype_sequence') and entry.autotype_sequence is not
\* None and entry.autotype_sequence != 'None'
has_sequence(e) ==
    /\ e.has_autotype
    /\ ~e.autotype_sequence.none
    /\ e.autotype_sequence.str # <<"None">>

\* (mutant) every Enter is tapped once.
enter_taps_once(idx, token) == 1

\* kbd.tap / call(cmd), and once more `if enter_idx is True and token in
\* ("{ENTER}", "~")`: the number of taps.
enter_taps(idx, token) == IF idx /\ token \in {Key("ENTER"), <<"~">>} THEN 2 ELSE 1

\* (mutant) an unsupported token is passed over.
unsupported_skipped(lib, token) == [abort |-> FALSE, err |-> <<>>]

\* else: dmenu_err("Unsupported auto-type token (<lib>): ..."); return
unsupported(lib, token) ==
    [abort |-> TRUE, err |-> <<"Unsupported auto-type token", lib, token>>]

\* A backend action issued for token number i.
Cmd(i, lib, sub, arg) == [i |-> i, cmd |-> <<lib, sub, arg>>]

\* One pass of `for token, special in tokens:` of the backend lib; bad says
\* that typing the text fails: kbd.type raises InvalidCharacterException
\* (pynput, caught by type_text), or the call() of `<tool> type` returns a
\* non-zero status (xdotool and ydotool, which do not look at what call()
\* returns). The result: the actions issued, the new enter_idx, whether the
\* function returned, the message shown, and whether the typing failed.
type_token(lib, i, tok, idx, bad) ==
    LET go(cmds) == [cmds |-> cmds, enter_idx |-> idx, abort |-> FALSE, err |-> <<>>,
                     failed |-> FALSE]
        type(text) ==
            IF bad
            THEN IF lib = "pynput"
                 THEN [cmds |-> <<>>, enter_idx |-> idx, abort |-> TRUE,
                       err |-> <<"Unable to type string...bad character.">>,
                       failed |-> TRUE]
                 ELSE [go(<<Cmd(i, lib, "type", text)>>) EXCEPT !.failed = TRUE]
            ELSE go(<<Cmd(i, lib, "type", text)>>)
        key == KeyTable(lib)[tok.text]
        tap == Cmd(i, lib, key[1], <<key[2]>>)
    IN IF ~tok.special THEN type(tok.text)
       ELSE IF token_command(tok.text) THEN go(<<>>)
       ELSE IF tok.text \in DOMAIN PLACEHOLDER_AUTOTYPE_TOKENS
       THEN LET to_type == entry[PLACEHOLDER_AUTOTYPE_TOKENS[tok.text]]
            IN IF to_type # <<>> THEN type(to_type) ELSE go(<<>>)
       ELSE IF tok.text \in DOMAIN STRING_AUTOTYPE_TOKENS
       THEN type(STRING_AUTOTYPE_TOKENS[tok.text])
       ELSE IF tok.text \in DOMAIN KeyTable(lib)
       THEN [cmds |-> IF enter_taps(idx, tok.text) = 2 THEN <<tap, tap>> ELSE <<tap>>,
             enter_idx |-> idx /\ tok.text \notin {Key("ENTER"), <<"~">>},
             abort |-> FALSE, err |-> <<>>, failed |-> FALSE]
       ELSE [cmds |-> <<>>, enter_idx |-> idx, failed |-> FALSE] @@ unsupported(lib, tok.text)

type_frame == <<auth_file, daemon_vars, fd_vars, auth_ret, SEQUENCE, entry, library, more_vars>>

\* The generator of tokenize_autotype, consumed to its end: each step is one
\* test of `while autotype:` and, when the test passes, one pass of the
\* body, up to the next test or to the return.
tokenize ==
    /\ typist = "tokenize"
    /\ IF autotype_rest = <<>>
       THEN /\ typist' = "tokenized"
            /\ UNCHANGED <<tokens, autotype_rest, shown>>
       ELSE LET pass == tokenize_pass(autotype_rest)
            IN /\ tokens' = [tokens |-> tokens.tokens \o pass.yield, err |-> pass.err,
                             left |-> IF pass.err THEN autotype_rest ELSE <<>>]
               /\ autotype_rest' = pass.rest
               /\ shown' = IF pass.err THEN BraceError(autotype_rest) ELSE shown
               /\ typist' = IF pass.return THEN "tokenized" ELSE "tokenize"
    /\ UNCHANGED <<type_frame, sequence, tok_i, typed, enter_idx, type_failed>>

\* type_entry(entry) up to the call of the backend; the generator is made,
\* nothing is pulled from it yet.
type_entry ==
    /\ typist = "type_entry"
    /\ IF autotype_disabled(entry)
       THEN /\ shown' = <<"Autotype disabled for this entry">>
            /\ sequence' = SEQUENCE
            /\ typist' = "done"
            /\ UNCHANGED tokens
       ELSE /\ sequence' = IF has_sequence(entry) THEN entry.autotype_sequence.str
                                                  ELSE SEQUENCE
            /\ tokens' = tokenize_autotype(sequence')
            /\ typist' = "typing"
            /\ UNCHANGED shown
    /\ UNCHANGED <<type_frame, tok_i, typed, enter_idx, type_failed, autotype_rest>>

\* The backend's loop: the next token is pulled from the generator (which
\* shows its error when it gives up) and acted on.
backend_loop(lib, bad) ==
    /\ typist = "typing"
    /\ Backend(library) = lib
    /\ IF tok_i = Len(tokens.tokens)
       THEN /\ shown' = IF tokens.err THEN BraceError(tokens.left) ELSE shown
            /\ typist' = "done"
            /\ UNCHANGED <<tok_i, typed, enter_idx, type_failed>>
       ELSE LET r == type_token(lib, tok_i + 1, tokens.tokens[tok_i + 1], enter_idx, bad)
            IN /\ tok_i' = tok_i + 1
               /\ type_failed' = IF type_failed = 0 /\ r.failed THEN tok_i + 1
                                                                 ELSE type_failed
               /\ typed' = typed \o r.cmds
               /\ enter_idx' = r.enter_idx
               /\ shown' = dmenu_err(r.err)
               /\ typist' = IF r.abort THEN "done" ELSE "typing"
    /\ UNCHANGED <<type_frame, sequence, tokens, autotype_rest>>

type_entry_pynput(bad) == backend_loop("pynput", bad)

type_entry_xdotool(bad) == backend_loop("xdotool", bad)

type_entry_ydotool(bad) == backend_loop("ydotool", bad)

\* The parts the templates of SpecType are made of: a placeholder, an
\* escape, the two Enters, text, a delay, a key pynput lacks, a key xdotool
\* and ydotool lack, an operator character, and an opening brace that is
\* never closed.
TemplateParts ==
    {Key("USERNAME"), Key("PLUS"), Key("ENTER"), <<"~">>, <<"x">>, Key("DELAY 5"),
     Key("ADD"), Key("PRTSC"), <<"^">>, <<"{">>}

RECURSIVE Concat(_)
Concat(parts) == IF parts = <<>> THEN <<>> ELSE Head(parts) \o Concat(Tail(parts))

Templates == {Concat(parts) : parts \in SeqsUpTo(TemplateParts, MaxParts)}

Entries ==
    {Entry(FALSE, "None", TRUE, <<>>)}
    \cup {Entry(TRUE, enabled, TRUE, <<>>) : enabled \in {"None", "True", "False"}}
    \cup {Entry(TRUE, enabled, FALSE, seq) :
            enabled \in {"None", "True", "False"},
            seq \in (Templates \ {<<>>}) \cup {<<"None">>}}

\* Entries with a username that is empty or None (`if to_type:` fails for
\* both): one without the autotype attributes, the others with a template
\* of two directives.
EmptyFieldEntries ==
    LET parts == {Key("USERNAME"), Key("DELAY 5"), Key("ENTER")}
    IN {[e EXCEPT !.username = <<>>] :
            e \in {Entry(FALSE, "None", TRUE, <<>>)}
                  \cup {Entry(TRUE, "None", FALSE, a \o b) : a \in parts, b \in parts}}

\* SpecTok: the tokenizer on every template of at most MaxLen pieces, and
\* on every template made of at most MaxDirectives braced directives.
TokPieces == {"{", "}", "~", "x"}

Directives ==
    {Key("USERNAME"), Key("TAB"), Key("PASSWORD"), Key("ENTER"), Key("~"),
     <<"{", "{", "}">>, <<"{", "}", "}">>}

DirectiveTemplates == {Concat(ds) : ds \in SeqsUpTo(Directives, MaxDirectives)}

InitTok ==
    /\ auth_file = Absent
    /\ InitDaemon
    /\ InitFD
    /\ InitAuthRet
    /\ shown = <<>>
    /\ SEQUENCE = DefaultSequence
    /\ entry = Entry(FALSE, "None", TRUE, <<>>)
    /\ library = ""
    /\ sequence \in SeqsUpTo(TokPieces, MaxLen) \cup DirectiveTemplates
    /\ tokens = [tokens |-> <<>>, err |-> FALSE, left |-> <<>>]
    /\ tok_i = 0
    /\ typed = <<>>
    /\ enter_idx = TRUE
    /\ typist = "tokenize"
    /\ InitEditRest
    /\ InitHideRest
    /\ type_failed = 0
    /\ autotype_rest = sequence

NextTok == tokenize

SpecTok == InitTok /\ [][NextTok]_vars

\* SpecType: one call of type_entry, on every entry, with every backend and
\* two global templates.
InitType ==
    /\ auth_file = Absent
    /\ InitDaemon
    /\ InitFD
    /\ InitAuthRet
    /\ shown = <<>>
    /\ SEQUENCE \in {DefaultSequence, <<"x">> \o Key("ENTER")}
    /\ entry \in Entries \cup EmptyFieldEntries
    /\ library \in {"", "xdotool", "ydotool"}
    /\ sequence = <<>>
    /\ tokens = [tokens |-> <<>>, err |-> FALSE, left |-> <<>>]
    /\ tok_i = 0
    /\ typed = <<>>
    /\ enter_idx = TRUE
    /\ typist = "type_entry"
    /\ InitEditRest
    /\ InitHideRest
    /\ type_failed = 0
    /\ autotype_rest = <<>>

NextType ==
    \/ type_entry
    \/ \E bad \in BOOLEAN : type_entry_pynput(bad)
    \/ \E bad \in BOOLEAN : type_entry_xdotool(bad)
    \/ \E bad \in BOOLEAN : type_entry_ydotool(bad)

SpecType == InitType /\ [][NextType]_vars

\* ------------------------------------------------------- the edit loop
\* SpecEdit: MaxEdits operations of one loop on one database: edit_entry
\* called again and again on one entry (the loop of DmenuRunner.edit_entry),
\* or delete_group called from the loop of manage_groups.
MaxEdits == 2
\* The largest number answered to "Password Length?".
MaxPwLen == 3
\* keepmenu.py line 1195: the length used when the answer is no number.
DefaultLength == 20

\* One dmenu_select call: its prompt, the lines it was given, and the lines
\* it returned (<<>> when nothing was chosen or typed).
Ask(prompt, inp, sel) == [prompt |-> prompt, inp |-> inp, sel |-> sel]

\* A line given to a menu: its fixed text and the value formatted into it.
Line(label, value) == [label |-> label, value |-> value]
Plain(label) == Line(label, Str(""))

\* get_password_chars: the presets, each the character sets it is made of
\* (string.ascii_uppercase, ascii_lowercase, digits, punctuation), with no
\* [password_chars] or [password_char_presets] section in the configuration.
presets ==
    ("Letters+Digits+Punctuation" :> {"upper", "lower", "digits", "punctuation"})
    @@ ("Letters+Digits" :> {"upper", "lower", "digits"})
    @@ ("Letters" :> {"upper", "lower"})
    @@ ("Digits" :> {"digits"})

\* The menu of the presets, in the order of the dictionary.
preset_lines ==
    <<Plain("Letters+Digits+Punctuation"), Plain("Letters+Digits"), Plain("Letters"),
      Plain("Digits")>>

\* get_password_chars(), char_sel being what "Pick character set(s) to use"
\* returned (several lines with rofi's multiple select):
\* {k: presets[k] for k in char_sel.split('\n')} if char_sel else False.
\* False is the mapping of no preset here.
get_password_chars(char_sel) ==
    [k \in {char_sel[i] : i \in 1..Len(char_sel)} |-> presets[k]]

\* (mutant) no character is drawn from each set first.
none_of_each(sets) == [length |-> 0, classes |-> {}]

\* password = "".join(choice(k) for k in sets)
one_of_each(sets) == [length |-> Cardinality(sets), classes |-> sets]

\* The character sets of a selection of presets.
sets_of(chars) == UNION {chars[p] : p \in DOMAIN chars}

\* The character sets that length - len(sets) characters chosen from the
\* alphabet can come from.
Drawable(chars, length) ==
    LET more == length - Cardinality(sets_of(chars))
    IN IF more <= 0 THEN {{}}
       ELSE {d \in SUBSET sets_of(chars) : d # {} /\ Cardinality(d) <= more}

\* gen_passwd(chars, length), drawn being the character sets the characters
\* chosen from the whole alphabet happen to come from; random.shuffle changes
\* neither the length nor the characters.
gen_passwd(chars, length, drawn) ==
    LET sets == sets_of(chars)
        password == one_of_each(sets)
    IN IF length < Cardinality(sets) \/ DOMAIN chars = {}
       THEN FalseVal
       ELSE [kind |-> "generated", text |-> "",
             length |-> password.length + (length - Cardinality(sets)),
             classes |-> password.classes \cup drawn]

\* int(length), with `except ValueError: length = 20`.
password_length(length) ==
    IF \E n \in 0..MaxPwLen : ToString(n) = length[1]
    THEN CHOOSE n \in 0..MaxPwLen : ToString(n) = length[1]
    ELSE DefaultLength

\* edit_entry: the lines of the field menu.
fields(e) ==
    <<Line("Title: ", e.title),
      Line("Path: ", e.path),
      Line("Username: ", e.username),
      IF truthy(e.password) THEN Plain("Password: **********") ELSE Plain("Password: None"),
      Line("Url: ", e.url),
      Line("Autotype Sequence: ", e.autotype_sequence),
      Line("Autotype Enabled: ", e.autotype_enabled),
      IF truthy(e.notes) THEN Plain("Notes: <Enter to Edit>") ELSE Plain("Notes: None"),
      Plain("Delete Entry: ")>>

\* field, sel = sel.split(": ", 1); field.lower().replace(" ", "_"), on the
\* lines of the field menu.
field_of ==
    ("Title: " :> "title") @@ ("Path: " :> "path") @@ ("Username: " :> "username")
    @@ ("Password: **********" :> "password") @@ ("Password: None" :> "password")
    @@ ("Url: " :> "url") @@ ("Autotype Sequence: " :> "autotype_sequence")
    @@ ("Autotype Enabled: " :> "autotype_enabled")
    @@ ("Notes: <Enter to Edit>" :> "notes") @@ ("Notes: None" :> "notes")
    @@ ("Delete Entry: " :> "delete_entry")

\* field.capitalize()
capitalize ==
    ("title" :> "Title") @@ ("username" :> "Username") @@ ("password" :> "Password")
    @@ ("url" :> "Url") @@ ("autotype_sequence" :> "Autotype_sequence")

\* sel = dmenu_select(len(fields), inp=input_b), the line of field chosen.
pick(field) ==
    LET lines == fields(kp_entry)
        i == CHOOSE j \in 1..Len(lines) : field_of[lines[j].label] = field
    IN Ask("Entries", lines, <<lines[i].label>>)

\* edit_b: what the line held after ": ", the password itself for the
\* password field.
edit_b(e, field) == <<Line("", e[field])>>

\* (mutant) the second prompt is never made.
never_retype(pw_choice) == FALSE

\* if pw_choice:
retype(pw_choice) == pw_choice # <<>>

\* (mutant) the second answer is not compared with the first.
differs_never(sel, sel_check) == FALSE

\* if not sel_check or sel_check != sel:
differs(sel, sel_check) == sel_check = <<>> \/ sel_check # sel

\* edit_entry, lines 1210-1219: the new value is asked for, and asked for
\* again when pw_choice is set. The entry after setattr, the menus shown and
\* the error shown.
prompt_for(e, asks, field, pw_choice, sel, sel_check) ==
    LET first == Ask(capitalize[field], edit_b(e, field), sel)
        second == Ask(capitalize[field], edit_b(e, field), sel_check)
        mismatch == <<"Passwords do not match. No changes made.">>
    IN IF sel = <<>>
       THEN [entry |-> e, asks |-> asks \o <<first>>, err |-> <<>>]
       ELSE IF retype(pw_choice) /\ differs(sel, sel_check)
       THEN [entry |-> e, err |-> mismatch,
             asks |-> asks \o <<first, second, Ask(mismatch[1], <<>>, <<>>)>>]
       ELSE [entry |-> [e EXCEPT ![field] = Str(sel[1])], err |-> <<>>,
             asks |-> asks \o <<first>> \o IF retype(pw_choice) THEN <<second>> ELSE <<>>]

\* edit_entry is called on the entry of the loop.
Editing == edit = "editing" /\ edits < MaxEdits /\ entry_in_db

\* edit_entry returns ret, the entry being e and asks the menus it showed.
Return(e, asks, ret) ==
    /\ kp_entry' = e
    /\ dmenu' = asks
    /\ edit' = IF ret THEN "editing" ELSE "done"
    /\ edits' = edits + 1

edit_frame == <<auth_file, daemon_vars, fd_vars, auth_ret, type_vars, hide_vars>>

\* edit_entry: nothing is chosen in the field menu, or text without ": " is
\* typed: return False.
edit_entry_return(sel) ==
    /\ Editing
    /\ Return(kp_entry, <<Ask("Entries", fields(kp_entry), sel)>>, FALSE)
    /\ UNCHANGED <<entry_in_db, kpo_groups, kpo_saves, type_text_data, shown, edit_frame>>

\* edit_entry on the title, the username, the url or the autotype sequence.
edit_entry_text(field, sel) ==
    /\ Editing
    /\ LET pw_choice == <<>>
           r == prompt_for(kp_entry, <<pick(field)>>, field, pw_choice, sel, <<>>)
       IN Return(r.entry, r.asks, TRUE) /\ shown' = dmenu_err(r.err)
    /\ UNCHANGED <<entry_in_db, kpo_groups, kpo_saves, type_text_data, edit_frame>>

\* edit_entry on the notes: edit_notes runs the editor on a temporary file
\* and returns what the file holds; without the terminal it shows an error
\* and returns the note it was given.
edit_entry_notes(found, note) ==
    /\ Editing
    /\ LET old == IF truthy(kp_entry.notes) THEN kp_entry.notes ELSE Str("")
       IN IF found
          THEN /\ Return([kp_entry EXCEPT !.notes = Str(note)], <<pick("notes")>>, TRUE)
               /\ UNCHANGED shown
          ELSE /\ Return([kp_entry EXCEPT !.notes = old],
                         <<pick("notes"),
                           Ask("Terminal not found. Please update config.ini.", <<>>, <<>>)>>,
                         TRUE)
               /\ shown' = <<"Terminal not found. Please update config.ini.">>
    /\ UNCHANGED <<entry_in_db, kpo_groups, kpo_saves, type_text_data, edit_frame>>

\* edit_entry on autotype_enabled: sel = not at_enab == 'False'.
edit_entry_autotype_enabled(at_enab) ==
    /\ Editing
    /\ LET asks == <<pick("autotype_enabled"),
                     Ask("Autotype Enabled? True/False", <<Plain("True"), Plain("False")>>,
                         at_enab)>>
           sel == IF at_enab = <<"False">> THEN Str("False") ELSE Str("True")
       IN IF at_enab = <<>>
          THEN Return(kp_entry, asks, TRUE)
          ELSE Return([kp_entry EXCEPT !.autotype_enabled = sel], asks, TRUE)
    /\ UNCHANGED <<entry_in_db, kpo_groups, kpo_saves, type_text_data, shown, edit_frame>>

\* The groups, in the order of kpo.groups.
group_lines ==
    LET order == <<"g1", "g2">>
        IsGroup(g) == g \in kpo_groups
        there == SelectSeq(order, IsGroup)
    IN [i \in 1..Len(there) |-> Plain(there[i])]

\* select_group(kpo, prompt): the menu of the groups; False when nothing is
\* chosen.
select_group(prompt, grp) == Ask(prompt, group_lines, grp)

\* edit_entry on the path: kpo.move_entry(kp_entry, group).
edit_entry_path(grp) ==
    /\ Editing
    /\ LET asks == <<pick("path"), select_group("Groups", grp)>>
       IN IF grp = <<>>
          THEN Return(kp_entry, asks, TRUE)
          ELSE Return([kp_entry EXCEPT !.path = Str(grp[1])], asks, TRUE)
    /\ UNCHANGED <<entry_in_db, kpo_groups, kpo_saves, type_text_data, shown, edit_frame>>

\* The confirmation menu of delete_entry and delete_group.
confirm_delete(delete) ==
    Ask("Confirm delete", <<Plain("NO"), Plain("Yes - confirm delete")>>, delete)

\* (mutant) everything but "NO" confirms.
confirmed_unless_no(delete) == delete # <<"NO">>

\* if delete != "Yes - confirm delete": return True
confirmed(delete) == delete = <<"Yes - confirm delete">>

\* edit_entry on "Delete Entry: ": return delete_entry(kpo, kp_entry).
delete_entry(delete) ==
    /\ Editing
    /\ LET asks == <<pick("delete_entry"), confirm_delete(delete)>>
       IN IF confirmed(delete)
          THEN /\ entry_in_db' = FALSE
               /\ kpo_saves' = kpo_saves + 1
               /\ Return(kp_entry, asks, FALSE)
          ELSE /\ Return(kp_entry, asks, TRUE)
               /\ UNCHANGED <<entry_in_db, kpo_saves>>
    /\ UNCHANGED <<kpo_groups, type_text_data, shown, edit_frame>>

\* The password menu of edit_entry.
inputs_b(e) ==
    <<Plain("Generate password"), Plain("Manually enter password")>>
    \o IF truthy(e.password) THEN <<Plain("Type existing password")>> ELSE <<>>

pw_menu(pw_choice) == Ask("Password", inputs_b(kp_entry), pw_choice)

\* edit_entry on the password, nothing chosen in the password menu.
edit_entry_password_back ==
    /\ Editing
    /\ Return(kp_entry, <<pick("password"), pw_menu(<<>>)>>, TRUE)
    /\ UNCHANGED <<entry_in_db, kpo_groups, kpo_saves, type_text_data, shown, edit_frame>>

\* edit_entry on the password, "Type existing password" chosen from the
\* menu (which offers it when the entry has a password).
edit_entry_password_type ==
    /\ Editing
    /\ truthy(kp_entry.password)
    /\ type_text_data' = kp_entry.password
    /\ Return(kp_entry, <<pick("password"), pw_menu(<<"Type existing password">>)>>, FALSE)
    /\ UNCHANGED <<entry_in_db, kpo_groups, kpo_saves, shown, edit_frame>>

\* edit_entry on the password, "Manually enter password" chosen.
edit_entry_password_manual(sel, sel_check) ==
    /\ Editing
    /\ LET pw_choice == <<"Manually enter password">>
           r == prompt_for(kp_entry, <<pick("password"), pw_menu(pw_choice)>>, "password",
                           pw_choice, sel, sel_check)
       IN Return(r.entry, r.asks, TRUE) /\ shown' = dmenu_err(r.err)
    /\ UNCHANGED <<entry_in_db, kpo_groups, kpo_saves, type_text_data, edit_frame>>

\* edit_entry on the password, with any other answer to the password menu:
\* a password is generated. pw_choice is set to '', so that no prompt
\* follows.
edit_entry_password_generate(choice, length, char_sel) ==
    /\ Editing
    /\ LET pw_choice == <<>>
           chars == get_password_chars(char_sel)
           asks == <<pick("password"), pw_menu(choice),
                     Ask("Password Length?", <<Plain("20")>>, length)>>
           picked == Ask("Pick character set(s) to use", preset_lines, char_sel)
           error == <<"Number of char groups desired is more than requested pw length">>
       IN IF length = <<>>
          THEN Return(kp_entry, asks, TRUE) /\ UNCHANGED shown
          ELSE IF DOMAIN chars = {}
          THEN Return(kp_entry, asks \o <<picked>>, TRUE) /\ UNCHANGED shown
          ELSE \E drawn \in Drawable(chars, password_length(length)) :
                  LET sel == gen_passwd(chars, password_length(length), drawn)
                  IN IF sel = FalseVal
                     THEN /\ Return(kp_entry,
                                    asks \o <<picked, Ask(error[1], <<>>, <<>>)>>, TRUE)
                          /\ shown' = error
                     ELSE /\ ~retype(pw_choice)
                          /\ Return([kp_entry EXCEPT !.password = sel],
                                    asks \o <<picked>>, TRUE)
                          /\ UNCHANGED shown
    /\ UNCHANGED <<entry_in_db, kpo_groups, kpo_saves, type_text_data, edit_frame>>

\* delete_group(kpo), from the loop of manage_groups: the group is chosen,
\* then the deletion confirmed; the entry goes with its group.
delete_group(grp, delete) ==
    /\ edit = "groups"
    /\ edits < MaxEdits
    /\ edits' = edits + 1
    /\ LET asks == <<select_group("Delete Group:", grp)>>
       IN IF grp = <<>>
          THEN /\ dmenu' = asks
               /\ UNCHANGED <<kpo_groups, kpo_saves, entry_in_db>>
          ELSE IF ~confirmed(delete)
          THEN /\ dmenu' = asks \o <<confirm_delete(delete)>>
               /\ UNCHANGED <<kpo_groups, kpo_saves, entry_in_db>>
          ELSE /\ dmenu' = asks \o <<confirm_delete(delete)>>
               /\ kpo_groups' = kpo_groups \ {grp[1]}
               /\ kpo_saves' = kpo_saves + 1
               /\ entry_in_db' = (entry_in_db /\ kp_entry.path # Str(grp[1]))
    /\ UNCHANGED <<kp_entry, type_text_data, edit, shown, edit_frame>>

\* What the user answers.
TextAnswers == {<<>>, <<"a">>, <<"b">>}
DeleteAnswers == {<<>>, <<"NO">>, <<"Yes - confirm delete">>, <<"yes">>}
GroupAnswers == {<<>>} \cup {<<g>> : g \in kpo_groups}
LengthAnswers == {<<>>, <<"abc">>} \cup {<<ToString(n)>> : n \in 0..MaxPwLen}
CharSelections ==
    {<<>>, <<"Letters+Digits+Punctuation">>, <<"Letters+Digits">>, <<"Letters", "Digits">>}

InitEdit ==
    /\ auth_file = Absent
    /\ InitDaemon
    /\ InitFD
    /\ InitAuthRet
    /\ InitTypeRest
    /\ InitHideRest
    /\ kp_entry \in {EditEntry(NoneVal, ""), EditEntry(Str("old"), ""),
                     EditEntry(Str("old"), "g1")}
    /\ entry_in_db = TRUE
    /\ kpo_groups = {"g1", "g2"}
    /\ kpo_saves = 0
    /\ dmenu = <<>>
    /\ type_text_data = NoneVal
    /\ edit \in {"editing", "groups"}
    /\ edits = 0

NextEdit ==
    \/ \E sel \in {<<>>, <<"x">>} : edit_entry_return(sel)
    \/ \E field \in {"title", "url"}, sel \in TextAnswers :
           edit_entry_text(field, sel)
    \/ \E found \in BOOLEAN, note \in {"n"} : edit_entry_notes(found, note)
    \/ \E at_enab \in {<<>>, <<"True">>, <<"False">>} : edit_entry_autotype_enabled(at_enab)
    \/ \E grp \in GroupAnswers : edit_entry_path(grp)
    \/ \E delete \in DeleteAnswers : delete_entry(delete)
    \/ edit_entry_password_back
    \/ edit_entry_password_type
    \/ \E sel \in TextAnswers, sel_check \in TextAnswers :
           edit_entry_password_manual(sel, sel_check)
    \/ \E choice \in {<<"Generate password">>, <<"x">>}, length \in LengthAnswers,
          char_sel \in CharSelections :
           edit_entry_password_generate(choice, length, char_sel)
    \/ \E grp \in GroupAnswers, delete \in DeleteAnswers : delete_group(grp, delete)

SpecEdit == InitEdit /\ [][NextEdit]_vars

\* ------------------------------------------------------ the entry lists
\* SpecHide: the entry lists of DmenuRunner built for a database of one
\* entry. Strings are sequences of characters here. An entry's path is the
\* path of its group followed by its title ("group/title", the title alone
\* in the root group), as pykeepass formats it.
MaxTitle == 2
MaxHide == 1

\* str.rstrip(chars): the trailing characters that occur in chars are
\* removed.
RECURSIVE rstrip(_, _)
rstrip(text, chars) ==
    IF text # <<>> /\ \E i \in 1..Len(chars) : chars[i] = text[Len(text)]
    THEN rstrip(SubSeq(text, 1, Len(text) - 1), chars)
    ELSE text

\* sub in str
contains(text, sub) ==
    \E i \in 0..(Len(text) - Len(sub)) : SubSeq(text, i + 1, i + Len(sub)) = sub

\* DmenuRunner.get_hidden_groups: the names of hide_groups (split at the
\* commas) that are names of groups of the database.
get_hidden_groups ==
    LET IsGroupName(hg) == hg \in hide_kpo.groups
    IN SelectSeq(hide_groups, IsGroupName)

\* DmenuRunner.is_hidden(entry)
is_hidden(e) ==
    LET entry_group == rstrip(e.path, e.title)
    IN \E i \in 1..Len(get_hidden_groups) : contains(entry_group, get_hidden_groups[i])

\* kpo.entries
kpo_entries == <<[title |-> hide_kpo.title, path |-> hide_kpo.group_path \o hide_kpo.title]>>

\* DmenuRunner.get_entries_descriptions(include_hidden): the entries listed.
get_entries_descriptions(include_hidden) ==
    LET Listed(e) == include_hidden \/ ~is_hidden(e)
    IN SelectSeq(kpo_entries, Listed)

\* DmenuRunner.dmenu_select(prompt, include_hidden): the list is built for
\* the menu; include_hidden is True from edit_entry only.
dmenu_select(include_hidden) ==
    LET mode == IF include_hidden THEN "hidden" ELSE "default"
    IN /\ ~descriptions[mode].built
       /\ descriptions' =
              [descriptions EXCEPT ![mode] =
                  [built |-> TRUE, list |-> get_entries_descriptions(include_hidden)]]
       /\ UNCHANGED <<auth_file, daemon_vars, fd_vars, auth_ret, shown, type_vars, edit_vars,
                      hide_groups, hide_kpo>>

\* The names of groups, the paths of groups and the titles of SpecHide.
GroupNames == {<<"a">>, <<"b">>, <<"a", "b">>, <<"b", "a">>}
GroupPaths == {<<>>} \cup {name \o <<"/">> : name \in GroupNames}
Titles == SeqsUpTo({"a", "b", "/"}, MaxTitle)

InitHide ==
    /\ auth_file = Absent
    /\ InitDaemon
    /\ InitFD
    /\ InitAuthRet
    /\ InitTypeRest
    /\ InitEditRest
    /\ hide_groups \in SeqsUpTo(GroupNames, MaxHide)
    /\ \E groups \in SUBSET GroupNames, group_path \in GroupPaths, title \in Titles :
           /\ Cardinality(groups) <= 2
           /\ group_path = <<>> \/ SubSeq(group_path, 1, Len(group_path) - 1) \in groups
           /\ hide_kpo = [groups |-> groups, group_path |-> group_path, title |-> title]
    /\ descriptions = [default |-> Unbuilt, hidden |-> Unbuilt]

NextHide == \E include_hidden \in BOOLEAN : dmenu_select(include_hidden)

SpecHide == InitHide /\ [][NextHide]_vars

\* The scheduling of the processes: each process and the timer thread,
\* once it can take its step, takes it. Nothing obliges the user to answer
\* a menu or to run keepmenu again.
FairSpec ==
    /\ Spec
    /\ WF_vars(cache_time)
    /\ WF_vars(Server_run)
    /\ WF_vars(start_server_join)
    /\ WF_vars(main_exit)
    /\ WF_vars(run_get)
    /\ WF_vars(dmenu_run)
    /\ WF_vars(run_post)
    /\ WF_vars(kill_daemon)

\* ------------------------------------------------------------ the claims

\* C1: single-flight. At most one request's cycle is under way at any time;
\* whenever the Controller is at start_q.get() (the only place it pulls a
\* request) no cycle is under way and the handle holds no unsaved change of
\* an earlier request; and a request is begun only from that place.
C1_SingleFlight ==
    /\ Cardinality(active) <= 1
    /\ ctl = "idle" => (active = {} /\ kpo # "dirty")
    /\ ctl \in InFlight => Cardinality(active) = 1

\* C1 witness: the second of two requests is being serviced after the
\* first one's cycle (which saved and re-opened the database) has ended.
C1_Witness ==
    /\ serviced = {1, 2}
    /\ active = {2}
    /\ ctl \in MenuStates
    /\ start_q # <<>>

\* C2 (as claimed): when the Controller has left its loop or has been
\* terminated, every request that was put on start_q has been serviced.
C2_NoRequestDropped ==
    ctl \in {"exited", "terminated"} => \A id \in 1..submitted : id \in serviced

C4_NoMidActionInterrupt ==
    /\ ~interrupted
    /\ server = "exited" => ctl \notin InFlight

\* C5 (as claimed): once a cycle has armed the timer and no request arrives
\* any more, the daemon terminates and the auth file is removed.
C5_InactivityExpiry ==
    (cache_timer > 0 /\ start_q = <<>> /\ submitted = MaxRequests)
        ~> (parent = "exited" /\ ~auth_file.exists)

\* The kill flag becomes set because the cache time expired.
InactivityKill ==
    /\ ~kill_flag
    /\ kill_flag'
    /\ cache_time_expired'
    /\ ctl # "kill_daemon"

\* C6 (as claimed): the daemon is killed by inactivity only by a timer that
\* no request has arrived after: a request that arrives before the expiry
\* has reset the timer.
C6_RequestResetsTimer == [][InactivityKill => ~late_arrival']_vars

\* C7 (as claimed): no entries or groups are read through a handle that was
\* saved and not yet re-opened.
C7_ReopenAfterSave == ~stale_read

\* C9 (as claimed): when an invocation that went on to start_server has
\* exited, the auth file does not exist.
C9_AuthFileDeleted == parent = "exited" => ~auth_file.exists

\* C8 (as claimed): at most one invocation is a daemon, bound and serving,
\* at any time.
C8_AtMostOneDaemon == Cardinality({i \in Inv : Serving(i)}) <= 1

\* The file holds what get_auth itself writes: a [DEFAULT] section with a
\* numeric port and an authkey, and nothing that stops the parser.
Parsable(file) ==
    /\ file.exists
    /\ auth_read(file.lines).exc = "none"
    /\ HasOption(auth_read(file.lines).defaults, "port")
    /\ HasOption(auth_read(file.lines).defaults, "authkey")
    /\ IsNumber(GetOption(auth_read(file.lines).defaults, "port"))

\* C10 (as claimed): on every unparsable content get_auth removes the file
\* and returns no credentials, and no content makes a later call fail: from
\* the second call on get_auth returns a port and a key.
C10_SelfHealing ==
    /\ (auth_ret.calls >= 1 /\ auth_ret.before.exists /\ ~Parsable(auth_ret.before))
          => (auth_ret.how = "healed" /\ ~auth_file.exists)
    /\ auth_ret.calls >= 2 => auth_ret.how = "ok"

Unmatched(s) ==
    \E i \in 1..Len(s) : s[i] = "{" /\ \A j \in (i + 1)..Len(s) : s[j] # "}"

\* C12 (as claimed): for every template without an unmatched "{", the text
\* of the tokens, concatenated in order, is the template.
C12_RoundTrip ==
    (typist = "tokenized" /\ ~Unmatched(sequence))
        => Flatten(tokens.tokens) = sequence

\* The template up to its first unmatched "{".
BeforeUnmatched(s) ==
    SubSeq(s, 1, (CHOOSE i \in 1..Len(s) :
                     /\ s[i] = "{" /\ \A j \in (i + 1)..Len(s) : s[j] # "}"
                     /\ \A h \in 1..(i - 1) :
                            s[h] = "{" => \E j \in (h + 1)..Len(s) : s[j] = "}") - 1)

\* C13 (as claimed): for every template with an unmatched "{", the tokens
\* emitted are those of the text before it, each once and in order, and the
\* tokenizer ends on its error message.
C13_UnmatchedBrace ==
    (typist = "tokenized" /\ Unmatched(sequence))
        => /\ tokens.err
           /\ shown # <<>> /\ shown[1] = "Unable to find matching right brace"
           /\ Flatten(tokens.tokens) = BeforeUnmatched(sequence)

\* The first k pieces are literal text with a bare "}" in it: no character
\* the tokenizer looks for, and the text ends where the template ends or
\* where such a character stands.
BareBraceText(s, k) ==
    /\ \A i \in 1..k : s[i] \notin {"{", "+", "^", "%", "~", "@"}
    /\ \E i \in 1..k : s[i] = "}"
    /\ k = Len(s) \/ s[k + 1] \in {"{", "+", "^", "%", "~", "@"}

\* C14 (as claimed): literal text with a bare "}" in it is emitted as one
\* non-special token, and what follows it is tokenized as it is on its own.
C14_BareBraceLiteral ==
    typist = "tokenized" =>
        \A k \in 1..Len(sequence) :
            BareBraceText(sequence, k) =>
                tokens.tokens = <<Token(SubSeq(sequence, 1, k), FALSE)>>
                                \o tokenize_autotype(SubSeq(sequence, k + 1, Len(sequence))).tokens

\* C15: where the next "{" of the template opens "{}}", one special token
\* "{}}" is emitted for it, no token before it has a piece of it, and the
\* tokens after it are those of the text after these three characters; the
\* template "{}}" gives that token alone.
C15_LiteralClosingBrace ==
    typist = "tokenized" =>
        LET o == find(sequence, "{")
            brace == Token(<<"{", "}", "}">>, TRUE)
            toks == tokens.tokens
        IN /\ sequence = <<"{", "}", "}">> => toks = <<brace>>
           /\ (o # -1 /\ o + 2 < Len(sequence)
                 /\ at(sequence, o + 1) = "}" /\ at(sequence, o + 2) = "}")
              => \E k \in 1..Len(toks) :
                    /\ toks[k] = brace
                    /\ \A j \in 1..(k - 1) : \A h \in 1..Len(toks[j].text) :
                           toks[j].text[h] # "{"
                    /\ LET rest == tokenize_autotype(slice(sequence, o + 3, Len(sequence)))
                       IN /\ SubSeq(toks, k + 1, Len(toks)) = rest.tokens
                          /\ tokens.err = rest.err

C15_Witness ==
    /\ typist = "tokenized"
    /\ sequence = <<"x", "{", "}", "}", "~">>
    /\ Len(tokens.tokens) = 3

\* s read as braced directives one after the other, if it is that.
RECURSIVE Split(_)
Split(s) ==
    IF s = <<>> THEN [ok |-> TRUE, ds |-> <<>>]
    ELSE IF \E d \in Directives : Len(d) <= Len(s) /\ SubSeq(s, 1, Len(d)) = d
    THEN LET d == CHOOSE d \in Directives : Len(d) <= Len(s) /\ SubSeq(s, 1, Len(d)) = d
             more == Split(SubSeq(s, Len(d) + 1, Len(s)))
         IN [ok |-> more.ok, ds |-> <<d>> \o more.ds]
    ELSE [ok |-> FALSE, ds |-> <<>>]

\* C16: a template made of n braced directives gives n special tokens, the
\* directives in their order, and no literal token.
C16_DirectivesOnly ==
    (typist = "tokenized" /\ Split(sequence).ok)
        => /\ tokens.tokens = [i \in 1..Len(Split(sequence).ds) |->
                                  Token(Split(sequence).ds[i], TRUE)]
           /\ ~tokens.err

C16_Witness ==
    /\ typist = "tokenized"
    /\ sequence = DefaultSequence
    /\ Len(tokens.tokens) = 4
    /\ \A i \in 1..4 : tokens.tokens[i].special

\* type_entry has run on the entry.
Typed == typist \in {"typing", "done"}

\* C17: on an entry whose autotype is disabled, type_entry shows its notice
\* and ends; no token is pulled and no backend action is issued, whatever
\* the templates and the backend.
C17_DisabledTypesNothing ==
    (Typed /\ entry.has_autotype /\ entry.autotype_enabled = "False")
        => /\ typist = "done"
           /\ shown = <<"Autotype disabled for this entry">>
           /\ tok_i = 0 /\ typed = <<>>

C17_Witness ==
    /\ typist = "done"
    /\ entry.has_autotype /\ entry.autotype_enabled = "False"
    /\ entry.autotype_sequence.str = <<"x">> \o Key("ENTER")
    /\ library = "xdotool"
    /\ shown # <<>>

\* C18 (as claimed): the template tokenized is the entry's own sequence if
\* it is present and non-empty, the global one otherwise.
C18_EffectiveTemplate ==
    (Typed /\ ~(entry.has_autotype /\ entry.autotype_enabled = "False"))
        => sequence = IF /\ entry.has_autotype
                         /\ ~entry.autotype_sequence.none
                         /\ entry.autotype_sequence.str # <<>>
                      THEN entry.autotype_sequence.str
                      ELSE SEQUENCE

\* C18 (amended): the template tokenized is the entry's own sequence if the
\* entry has one that is neither None nor the string 'None', the global one
\* otherwise.
C18_EffectiveTemplateNone ==
    (Typed /\ ~(entry.has_autotype /\ entry.autotype_enabled = "False"))
        => /\ sequence = IF /\ entry.has_autotype
                            /\ ~entry.autotype_sequence.none
                            /\ entry.autotype_sequence.str # <<"None">>
                         THEN entry.autotype_sequence.str
                         ELSE SEQUENCE
           /\ tokens = tokenize_autotype(sequence)

C18_Witness ==
    /\ typist = "done"
    /\ entry.has_autotype /\ entry.autotype_enabled = "True"
    /\ ~entry.autotype_sequence.none /\ entry.autotype_sequence.str = <<"None">>
    /\ sequence = SEQUENCE
    /\ typed # <<>>

\* Token number i is {ENTER} or ~.
IsEnter(i) == tokens.tokens[i].special /\ tokens.tokens[i].text \in {Key("ENTER"), <<"~">>}

\* The backend actions issued for token number i.
ActionsFor(i) == {j \in 1..Len(typed) : typed[j].i = i}

\* C19: on each backend, the first {ENTER} or ~ of a run is tapped twice and
\* every later one once, whichever spelling came first.
C19_FirstEnterTwice ==
    Typed =>
        \A i \in 1..tok_i :
            IsEnter(i) =>
                /\ Cardinality(ActionsFor(i)) =
                       IF \E h \in 1..(i - 1) : IsEnter(h) THEN 1 ELSE 2
                /\ \A j \in ActionsFor(i) :
                       /\ typed[j].cmd[1] = Backend(library)
                       /\ typed[j].cmd[2] \in {"tap", "key"}
                       /\ typed[j].cmd[3] \in {<<"enter">>, <<"Return">>, <<"ENTER">>}

C19_Witness ==
    /\ typist = "done"
    /\ library = "ydotool"
    /\ sequence = <<"~">> \o Key("ENTER") \o <<"~">>
    /\ Len(typed) = 4

\* A special token that is no delay, no placeholder, no escape and no key of
\* the backend's table.
UnsupportedToken(lib, tok) ==
    /\ tok.special
    /\ ~token_command(tok.text)
    /\ tok.text \notin DOMAIN PLACEHOLDER_AUTOTYPE_TOKENS
    /\ tok.text \notin DOMAIN STRING_AUTOTYPE_TOKENS
    /\ tok.text \notin DOMAIN KeyTable(lib)

\* C20: when the backend comes to an unsupported token the run ends there
\* with the error naming the token and the backend, no action is issued for
\* it or for a later token, and no action issued so far is taken back.
C20_UnsupportedAborts ==
    /\ [](Typed =>
            \A i \in 1..tok_i :
                UnsupportedToken(Backend(library), tokens.tokens[i])
                    => /\ typist = "done" /\ tok_i = i
                       /\ shown = <<"Unsupported auto-type token", Backend(library),
                                    tokens.tokens[i].text>>
                       /\ \A j \in 1..Len(typed) : typed[j].i < i)
    /\ [][Len(typed') >= Len(typed) /\ SubSeq(typed', 1, Len(typed)) = typed]_vars

C20_Witness ==
    /\ typist = "done"
    /\ library = ""
    /\ sequence = <<"x">> \o Key("ADD") \o <<"x">>
    /\ tok_i = 2 /\ Len(typed) = 1
    /\ shown = <<"Unsupported auto-type token", "pynput", Key("ADD")>>

\* C21: on each backend, once the typing of a text has failed the run is over
\* at that token with an error on display, and no action is issued for a
\* later token.
C21_TypingFailureAborts ==
    (Typed /\ type_failed # 0) =>
        /\ typist = "done"
        /\ tok_i = type_failed
        /\ shown # <<>>
        /\ \A j \in 1..Len(typed) : typed[j].i <= type_failed

\* C22: every action of the xdotool or ydotool backend is `<tool> type ...`
\* or `<tool> key ...`.
C22_TypeOrKeyOnly ==
    \A j \in 1..Len(typed) :
        typed[j].cmd[1] \in {"xdotool", "ydotool"} => typed[j].cmd[2] \in {"type", "key"}

\* C30: every pass of the tokenizer's loop either ends the generator or leaves
\* strictly less input (so the passes are at most as many as the template is
\* long), and the tokens yielded so far are at most two for each piece of
\* input consumed, and one more.
C30_TokenizerTerminates ==
    /\ [][typist = "tokenize" =>
             \/ typist' = "tokenized"
             \/ Len(autotype_rest') < Len(autotype_rest)]_vars
    /\ [](Len(tokens.tokens) <= 2 * (Len(sequence) - Len(autotype_rest)) + 1)

C30_Witness ==
    /\ typist = "tokenized"
    /\ sequence = <<"}", "{", "x", "}">>
    /\ Len(tokens.tokens) = 3

\* The states of the Controller inside a handler.
HandlerStates == InFlight \ {"dmenu_run", "select_option"}

\* The DmenuRunner process ended inside the step: an uncaught error, or the
\* invoking process exited.
Ended == ctl' \in {"crashed", "terminated"}

\* C27: a handler that returns not-finished leads to dmenu_run(None), hence
\* to the action menu, with no request pulled in between and the cycle's
\* request still the active one; a finished handler and a selection that is
\* no action lead out of dmenu_run, to run's tests of the flags, whence the
\* loop goes back to the queue unless a flag ends it; a type, view or edit
\* handler that returns is finished exactly when an entry was chosen.
C27_ControllerStateMachine ==
    [][/\ (ctl \in HandlerStates /\ ctl' = "dmenu_run") =>
              /\ option' = "None"
              /\ active' = active
              /\ serviced' = serviced
       /\ (ctl = "dmenu_run" /\ option = "None" /\ ctl' # ctl) =>
              (ctl' = "select_option" \/ Ended)
       /\ Len(start_q') < Len(start_q) => ctl = "idle"
       /\ \A sel \in {"", "entry"} :
              (select_entry(sel) /\ kpo # "none") =>
                  /\ (ctl' = "dmenu_run") <=> (sel = "")
                  /\ sel = "entry" => ctl' = IF option = "Edit" THEN "edit_loop" ELSE "post"
       /\ (ctl \in {"edit_loop", "save", "reopen", "kill_daemon"} /\ ctl' # ctl) =>
              (ctl' \in {"edit_loop", "save", "reopen", "post"} \/ Ended)
       /\ (ctl = "select_option" /\ option' = "None" /\ ctl' # ctl) =>
              (ctl' = "post" \/ Ended)
       /\ (ctl = "post" /\ ctl' # ctl) =>
              \/ ctl' = "idle" /\ ~kill_flag' /\ active' = {}
              \/ ctl' = "exited" /\ kill_flag'
              \/ Ended]_vars

\* The action menu is up for the second time in a cycle: reload-db has
\* failed to re-open the database and returned not-finished.
C27_Witness ==
    /\ ctl = "select_option"
    /\ kpo = "none"
    /\ active # {}

\* C28: the timer's callback, run while the queue is empty, sets both flags
\* and leaves a sentinel on the queue.
C28_TimerPushesSentinel ==
    [][(cache_time /\ start_q = <<>>) =>
           /\ cache_time_expired'
           /\ kill_flag'
           /\ start_q' # <<>>]_vars

\* C29: with the kill flag set the Controller brings up no menu, enters no
\* handler and begins no queued request.
C29_NoMenuAfterKill ==
    [][kill_flag =>
           /\ ~(ctl' \in MenuStates /\ ctl' # ctl)
           /\ ~(ctl' \in HandlerStates /\ ctl \notin HandlerStates)
           /\ ~(ctl = "idle" /\ ctl' = "dmenu_run")]_vars

\* The step is one operation of the edit loop or of manage_groups' loop.
EditStep == edits' = edits + 1

\* The last menu of an operation.
Last(log) == log[Len(log)]

\* A menu with this prompt was shown in the operation; the first such menu.
Asked(log, prompt) == \E i \in 1..Len(log) : log[i].prompt = prompt
AskOf(log, prompt) ==
    log[CHOOSE i \in 1..Len(log) :
            log[i].prompt = prompt /\ \A j \in 1..(i - 1) : log[j].prompt # prompt]

\* A length was given and the presets were offered.
GenAsked(log) == Asked(log, "Pick character set(s) to use")
GenLength(log) == password_length(AskOf(log, "Password Length?").sel)
GenPicked(log) == AskOf(log, "Pick character set(s) to use").sel
GenSets(log) == sets_of(get_password_chars(GenPicked(log)))

\* The caller reported that the generation was rejected.
GenRejected(log) ==
    Last(log).prompt = "Number of char groups desired is more than requested pw length"

\* The entry got a generated password of the length asked for, with a
\* character of every set asked for, and nothing else of it changed.
GenStored(log) ==
    /\ kp_entry'.password.kind = "generated"
    /\ kp_entry'.password.length = GenLength(log)
    /\ GenSets(log) \subseteq kp_entry'.password.classes
    /\ kp_entry' = [kp_entry EXCEPT !.password = kp_entry'.password]
    /\ ~GenRejected(log)

\* C23 as stated: with k <= L the password has length L and a character of
\* every class; with k > L, and with no preset selected, an error is
\* reported and the entry is unchanged.
C23_PasswordGeneration ==
    [][(EditStep /\ GenAsked(dmenu')) =>
           IF GenPicked(dmenu') # <<>> /\ Cardinality(GenSets(dmenu')) <= GenLength(dmenu')
           THEN GenStored(dmenu')
           ELSE GenRejected(dmenu') /\ kp_entry' = kp_entry]_vars

\* C23, amended: with presets selected, k <= L gives a password of length L
\* with a character of every class, and k > L an error and an unchanged
\* entry; with no preset selected the edit is abandoned after the preset
\* menu, with no error and the entry unchanged (gen_passwd, not called then,
\* returns False for no presets).
C23_PasswordGenerationPicked ==
    [][(EditStep /\ GenAsked(dmenu')) =>
           /\ \A length \in 0..MaxPwLen :
                  gen_passwd(get_password_chars(<<>>), length, {}) = FalseVal
           /\ IF GenPicked(dmenu') = <<>>
              THEN /\ Last(dmenu').prompt = "Pick character set(s) to use"
                   /\ kp_entry' = kp_entry
                   /\ shown' = shown
              ELSE IF Cardinality(GenSets(dmenu')) <= GenLength(dmenu')
              THEN GenStored(dmenu')
              ELSE /\ GenRejected(dmenu')
                   /\ shown' = <<Last(dmenu').prompt>>
                   /\ kp_entry' = kp_entry]_vars

\* A password of three characters made of three character sets.
C23_Witness ==
    /\ kp_entry.password.kind = "generated"
    /\ kp_entry.password.length = 3
    /\ kp_entry.password.classes = {"upper", "lower", "digits"}
    /\ GenPicked(dmenu) = <<"Letters", "Digits">>

\* The operation ended on the confirmation menu, the confirm line chosen.
Confirmed(log) ==
    /\ log # <<>>
    /\ Last(log) = confirm_delete(<<"Yes - confirm delete">>)

\* C25: the entry or a group leaves the database, and the database is
\* saved, only in an operation whose confirmation menu returned exactly the
\* confirm line; after any other answer to that menu nothing has changed.
C25_DeleteNeedsConfirm ==
    [][/\ (entry_in_db' # entry_in_db \/ kpo_groups' # kpo_groups \/ kpo_saves' # kpo_saves)
              => EditStep /\ Confirmed(dmenu') /\ kpo_saves' = kpo_saves + 1
       /\ (EditStep /\ Asked(dmenu', "Confirm delete") /\ ~Confirmed(dmenu'))
              => UNCHANGED <<kp_entry, entry_in_db, kpo_groups, kpo_saves>>
       /\ (EditStep /\ Confirmed(dmenu'))
              => (~entry_in_db' \/ kpo_groups' # kpo_groups)]_vars

C25_Witness ==
    /\ ~entry_in_db
    /\ kpo_saves = 1
    /\ kpo_groups = {"g1", "g2"}
    /\ Confirmed(dmenu)

\* The same one-line prompt was made twice in a row.
RetypeAsked(log) ==
    \E i \in 1..(Len(log) - 1) :
        /\ log[i].prompt = log[i + 1].prompt
        /\ log[i].inp = log[i + 1].inp
        /\ Len(log[i].inp) = 1
        /\ log[i].inp[1].label = ""

\* A password was generated and stored in the operation.
GeneratedStored(log) == GenAsked(log) /\ GenPicked(log) # <<>> /\ ~GenRejected(log)

\* "Manually enter password" was chosen in the password menu.
ManualChosen(log) ==
    /\ Len(log) >= 2
    /\ log[2] = Ask("Password", log[2].inp, <<"Manually enter password">>)

\* C26 as stated: the value is asked for twice exactly in the operations
\* that store a freshly generated password.
C26_RetypeWhenGenerated ==
    [][EditStep => (RetypeAsked(dmenu') <=> GeneratedStored(dmenu'))]_vars

\* C26, amended: the value is asked for twice exactly when a password is
\* entered by hand (and the first answer is not empty), the password is then
\* stored only if both answers are the same; a generated password is stored
\* with no prompt at all after the preset menu.
C26_RetypeWhenManual ==
    [][EditStep =>
           /\ RetypeAsked(dmenu') <=> (ManualChosen(dmenu') /\ dmenu'[3].sel # <<>>)
           /\ GeneratedStored(dmenu') =>
                  /\ ~RetypeAsked(dmenu')
                  /\ Last(dmenu').prompt = "Pick character set(s) to use"
                  /\ kp_entry'.password.kind = "generated"
           /\ (ManualChosen(dmenu') /\ kp_entry'.password # kp_entry.password) =>
                  /\ RetypeAsked(dmenu')
                  /\ dmenu'[3].sel = dmenu'[4].sel
                  /\ kp_entry'.password = Str(dmenu'[3].sel[1])]_vars

C26_Witness ==
    /\ kp_entry.password = Str("a")
    /\ ManualChosen(dmenu)
    /\ RetypeAsked(dmenu)

\* The entry's group path holds a name of hide_groups that is the name of a
\* group of the database.
InHiddenGroup ==
    \E i \in 1..Len(hide_groups) :
        /\ hide_groups[i] \in hide_kpo.groups
        /\ contains(hide_kpo.group_path, hide_groups[i])

\* C24: the default list holds the entry exactly when its group path holds
\* no hidden group's name, and the list built with include_hidden holds it
\* always.
C24_HiddenFiltering ==
    /\ descriptions.default.built =>
           (descriptions.default.list = IF InHiddenGroup THEN <<>> ELSE kpo_entries)
    /\ descriptions.hidden.built => descriptions.hidden.list = kpo_entries

\* A token that types nothing: a {DELAY n} directive, or a placeholder of a
\* field of the entry that is empty or None.
TypesNothing(tok) ==
    /\ tok.special
    /\ \/ tok.text = Key("DELAY 5")
       \/ /\ tok.text \in DOMAIN PLACEHOLDER_AUTOTYPE_TOKENS
          /\ entry[PLACEHOLDER_AUTOTYPE_TOKENS[tok.text]] = <<>>

\* C31: on every backend, the step that takes a token that types nothing
\* issues no action, shows no error, leaves enter_idx as it is and goes on
\* to the next token.
C31_TokensThatTypeNothing ==
    [][(typist = "typing" /\ tok_i < Len(tokens.tokens)
            /\ TypesNothing(tokens.tokens[tok_i + 1]))
       => /\ typed' = typed
          /\ enter_idx' = enter_idx
          /\ shown' = shown
          /\ typist' = "typing"
          /\ tok_i' = tok_i + 1]_vars

\* A delay and a placeholder of an empty field were the two tokens of the
\* template: the run has ended with nothing typed, no error shown and
\* enter_idx as it was.
C31_Witness ==
    /\ typist = "done"
    /\ shown = <<>>
    /\ tok_i = 2
    /\ \E i \in 1..2 : TypesNothing(tokens.tokens[i]) /\ tokens.tokens[i].text = Key("DELAY 5")
    /\ \E i \in 1..2 : TypesNothing(tokens.tokens[i]) /\ tokens.tokens[i].text = Key("USERNAME")
    /\ typed = <<>>
    /\ enter_idx

\* C32: at most one inactivity timer is armed at any time, and every pass
\* through dmenu_run leaves exactly one armed.
C32_OneTimer ==
    /\ [](cache_timer <= 1)
    /\ [][ctl = "dmenu_run" /\ ctl' # "dmenu_run" /\ ctl' # "terminated"
              => cache_timer' = 1]_vars

\* The second request's pass through dmenu_run has armed its timer while
\* no timer had fired: the first one was still pending when it was
\* cancelled.
C32_Witness ==
    /\ Cardinality(serviced) >= 2
    /\ ctl = "select_option"
    /\ cache_timer = 1
    /\ ~cache_time_expired

\* C33: once the Controller process has ended without the kill flag (the
\* menu program wrote to stderr, or a selection that is no numbered entry
\* line raised), the kill flag gets set and the Server process ends; the
\* server is never left accepting requests with no Controller.
C33_DaemonEndsWithController == (ctl = "crashed") ~> (kill_flag /\ server = "exited")

\* C34: whenever a menu is on screen or a handler is running, self.kpo is
\* a database handle, also after a failed re-open.
C34_HandleWhileServing == ctl \in InFlight \ {"dmenu_run"} => kpo # "none"

\* C35: while an invocation is serving as daemon, the auth file exists and
\* a new invocation's get_auth reads that daemon's port from it.
C35_AuthFileOfLiveDaemon ==
    \A i \in Inv :
        Serving(i) =>
            /\ auth_file.exists
            /\ get_auth(auth_file, 1).how = "ok"
            /\ get_auth(auth_file, 1).port = inv[i].port

\* The two answers to the prompts of the manual entry; <<>> for a prompt
\* that was not made.
ManualAnswer(log, i) ==
    IF Len(log) >= i /\ log[i].prompt = "Password" THEN log[i].sel ELSE <<>>

\* C36: in an operation in which the password is entered by hand, the
\* entry gets the new password when both prompts return the same non-empty
\* text and is unchanged otherwise; nothing else changes and the edit loop
\* goes on.
C36_ManualAllOrNothing ==
    [][(EditStep /\ ManualChosen(dmenu')) =>
           /\ IF /\ ManualAnswer(dmenu', 3) # <<>>
                 /\ ManualAnswer(dmenu', 4) = ManualAnswer(dmenu', 3)
              THEN kp_entry' = [kp_entry EXCEPT !.password = Str(ManualAnswer(dmenu', 3)[1])]
              ELSE kp_entry' = kp_entry
           /\ edit' = "editing"
           /\ UNCHANGED <<entry_in_db, kpo_groups, kpo_saves, type_text_data>>]_vars

\* A password entered by hand was stored, and a later manual entry whose
\* second answer differed from the first has left it in place.
C36_Witness ==
    /\ kp_entry.password = Str("a")
    /\ ManualChosen(dmenu)
    /\ ManualAnswer(dmenu, 3) = <<"b">>
    /\ ManualAnswer(dmenu, 4) = <<"a">>
    /\ Last(dmenu).prompt = "Passwords do not match. No changes made."
    /\ edit = "editing"

\* The lines of the field menu that stand for the password.
PasswordLabels == {label \in DOMAIN field_of : field_of[label] = "password"}

\* C37: in the edit loop the field menu shows the password as a mask (or
\* as None), and no menu of an edit of the password is given the entry's
\* password among its lines.
C37_PasswordMasked ==
    [][(EditStep /\ dmenu' # <<>> /\ dmenu'[1].prompt = "Entries") =>
           /\ \A j \in 1..Len(dmenu'[1].inp) :
                  dmenu'[1].inp[j].label \in PasswordLabels
                      => dmenu'[1].inp[j] = Plain(dmenu'[1].inp[j].label)
           /\ (truthy(kp_entry.password) /\ dmenu'[1].sel \in {<<l>> : l \in PasswordLabels})
                  => \A i \in 2..Len(dmenu') : \A j \in 1..Len(dmenu'[i].inp) :
                         dmenu'[i].inp[j].value # kp_entry.password]_vars

====
